---- MODULE Spec2Model ----
(***************************************************************************)
(* pygermanet: the GermaNet query library (src/pygermanet/germanet.py)     *)
(* over the MongoDB lexicon written by src/pygermanet/mongo_import.py.     *)
(*                                                                         *)
(* Strings are sequences of one-character strings, so that split('.'),     *)
(* isdigit() and int() are computed character by character.  Database      *)
(* identities (ObjectId) are positive integers; 0 stands for "no id".      *)
(***************************************************************************)
EXTENDS Integers, Sequences, FiniteSets, TLC

VARIABLES
    synsets,        \* db.synsets : _id -> document
    lexunits,       \* db.lexunits: _id -> document
    metainfo,       \* db.metainfo: its documents (none, or one)
    synset_cache,   \* GermaNet._synset_cache (repoze.lru.LRUCache)
    lemma_cache,    \* GermaNet._lemma_cache
    recency,        \* observer: synset ids fetched since the caches were
                    \* created, least recently fetched first
    cold,           \* observer: no synset id was fetched twice since then
    xml_path,       \* the GermaNet XML directory given to the importer
    runs,           \* observer: import runs started against the database
    last            \* observer: the last call, its argument and its outcome

vars == <<synsets, lexunits, metainfo, synset_cache, lemma_cache, recency,
          cold, xml_path, runs, last>>

\* No XML directory is in play: the database was filled beforehand.
NoDirectory == <<>>

----------------------------------------------------------------------------
(* Bounds of the model *)

NumSynsets   == 4   \* synsets in the lexicon
MaxCacheSize == 2   \* largest cache capacity tried besides the default

(* Program constants *)

DEFAULT_CACHE_SIZE == 100

LONG_POS_TO_SHORT == [verben |-> "v", nomen |-> "n", adj |-> "j"]

SHORT_POS_TO_LONG == [v |-> "verben", n |-> "nomen", j |-> "adj"]

----------------------------------------------------------------------------
(* Small helpers on sequences *)

Range(s) == {s[i] : i \in DOMAIN s}

NoDup(s) == \A i, j \in DOMAIN s : s[i] = s[j] => i = j

(* F applied to x: names a value that F uses more than once *)
With(x, F(_)) == F(x)

LastN(s, n) == IF Len(s) <= n THEN s ELSE SubSeq(s, Len(s) - n + 1, Len(s))

RECURSIVE Without(_, _)
Without(s, x) ==
    IF s = <<>> THEN <<>>
    ELSE IF Head(s) = x THEN Without(Tail(s), x)
         ELSE <<Head(s)>> \o Without(Tail(s), x)

----------------------------------------------------------------------------
(* repoze.lru.LRUCache, the cache class germanet.py instantiates.  It is   *)
(* the clock approximation of LRU: a ring of `size` slots, one reference   *)
(* bit per slot and a hand.  Slot positions are 0 .. size-1 as in the      *)
(* library; slot p is element p+1 of the sequences.  Capacities stay below *)
(* the library's limit on the length of one sweep of the hand.             *)

MARKER == 0         \* the library's _MARKER: an empty slot

NoCache == [size |-> 0, hand |-> 0, clock_keys |-> <<>>, clock_refs |-> <<>>,
            data |-> <<>>]

(* self.data maps a key to (pos, val); the value stored under a key is the *)
(* object built from the document with that _id, so data keeps pos only.   *)
LRUCache(size) ==
    [size       |-> size,
     hand       |-> 0,
     clock_keys |-> [i \in 1..size |-> MARKER],
     clock_refs |-> [i \in 1..size |-> FALSE],
     data       |-> <<>>]

DictPop(data, key) == [k \in DOMAIN data \ {key} |-> data[k]]

DictSet(data, key, pos) ==
    [k \in DOMAIN data \cup {key} |-> IF k = key THEN pos ELSE data[k]]

(* LRUCache.get(key): the value, None (0) on a miss *)
LRUCache_get_val(c, key) == IF key \in DOMAIN c.data THEN key ELSE 0

(* LRUCache.get(key): its effect, a hit sets the reference bit *)
LRUCache_get(c, key) ==
    IF key \in DOMAIN c.data
    THEN [c EXCEPT !.clock_refs[c.data[key] + 1] = TRUE]
    ELSE c

(* The sweep of put(): clear reference bits until a slot with a cleared    *)
(* bit is under the hand; that slot is the victim.                         *)
RECURSIVE Sweep(_, _, _)
Sweep(refs, hand, maxpos) ==
    IF refs[hand + 1]
    THEN Sweep([refs EXCEPT ![hand + 1] = FALSE],
               IF hand + 1 > maxpos THEN 0 ELSE hand + 1, maxpos)
    ELSE [refs |-> refs, hand |-> hand]

(* LRUCache.put(key, val) *)
LRUCache_put(c, key) ==
    IF key \in DOMAIN c.data
    THEN [c EXCEPT !.clock_refs[c.data[key] + 1] = TRUE]
    ELSE LET sw     == Sweep(c.clock_refs, c.hand, c.size - 1)
             oldkey == c.clock_keys[sw.hand + 1]
         IN  [c EXCEPT !.clock_keys[sw.hand + 1] = key,
                       !.clock_refs = [sw.refs EXCEPT ![sw.hand + 1] = TRUE],
                       !.data = DictSet(DictPop(c.data, oldkey), key, sw.hand),
                       !.hand = IF sw.hand + 1 > c.size - 1 THEN 0
                                ELSE sw.hand + 1]

----------------------------------------------------------------------------
(* Strings: str.split('.'), str.isdigit(), int(s, 10) and tuple ordering *)

NoneStr == <<"None">>       \* the argument None where a string may be given

Ord(ch) ==
    CASE ch = "." -> 46
      [] ch = "0" -> 48 [] ch = "1" -> 49 [] ch = "2" -> 50 [] ch = "3" -> 51
      [] ch = "4" -> 52 [] ch = "5" -> 53 [] ch = "6" -> 54 [] ch = "7" -> 55
      [] ch = "8" -> 56 [] ch = "9" -> 57
      [] ch = "a" -> 97 [] ch = "b" -> 98 [] ch = "j" -> 106
      [] ch = "n" -> 110 [] ch = "v" -> 118 [] ch = "x" -> 120
      [] ch = "^2" -> 178
      [] OTHER -> 0

DecimalChars == {"0", "1", "2", "3", "4", "5", "6", "7", "8", "9"}

(* Characters c with c.isdigit(): the decimal digits and the other         *)
(* characters of Unicode numeric type Digit, such as SUPERSCRIPT TWO       *)
(* (U+00B2), written "^2" here.                                            *)
DigitChars == DecimalChars \cup {"^2"}

IsDigit(s) == s # <<>> /\ \A i \in DOMAIN s : s[i] \in DigitChars

(* int(s, 10) accepts decimal characters only; anything else raises        *)
(* ValueError.  IntOK tells whether it returns, IntValue what.             *)
IntOK(s) == s # <<>> /\ \A i \in DOMAIN s : s[i] \in DecimalChars

RECURSIVE IntValue(_)
IntValue(s) ==
    IF s = <<>> THEN 0
    ELSE 10 * IntValue(SubSeq(s, 1, Len(s) - 1)) + (Ord(s[Len(s)]) - 48)

RECURSIVE Split(_)
Split(s) ==
    IF \A i \in DOMAIN s : s[i] # "." THEN <<s>>
    ELSE LET k == CHOOSE i \in DOMAIN s :
                      s[i] = "." /\ \A j \in 1..(i - 1) : s[j] # "."
         IN  <<SubSeq(s, 1, k - 1)>> \o Split(SubSeq(s, k + 1, Len(s)))

RECURSIVE StrLess(_, _)
StrLess(s, t) ==
    IF t = <<>> THEN FALSE
    ELSE IF s = <<>> THEN TRUE
    ELSE IF Ord(Head(s)) # Ord(Head(t)) THEN Ord(Head(s)) < Ord(Head(t))
    ELSE StrLess(Tail(s), Tail(t))

(* (orthForm, pos, sense) < (orthForm, pos, sense), as Python orders tuples *)
KeyLess(k1, k2) ==
    IF k1[1] # k2[1] THEN StrLess(k1[1], k2[1])
    ELSE IF k1[2] # k2[2] THEN StrLess(k1[2], k2[2])
    ELSE k1[3] < k2[3]

----------------------------------------------------------------------------
(* The lexicon after the lexical pass of the importer: synset s owns the   *)
(* lexical unit s, synset 1 owns one more, and every lexical unit carries  *)
(* its synset's identity and category.                                     *)

SynsetIds == 1..NumSynsets

LexunitIds == 1..(NumSynsets + 1)

OwnerOf(l) == IF l <= NumSynsets THEN l ELSE 1

CategoryOf(s) == IF s % 3 = 0 THEN "verben" ELSE "nomen"

OrthFormOf(l) == [i \in 1..((l + 1) \div 2) |-> "a"]

LexicalSynsets ==
    [s \in SynsetIds |->
        [category |-> CategoryOf(s),
         lexunits |-> IF s = 1 THEN <<1, NumSynsets + 1>> ELSE <<s>>,
         rels     |-> <<>>]]

LexicalLexunits ==
    [l \in LexunitIds |->
        [orthForm |-> OrthFormOf(l),
         category |-> CategoryOf(OwnerOf(l)),
         sense    |-> l,
         synset   |-> OwnerOf(l),
         rels     |-> <<>>]]

----------------------------------------------------------------------------
(* Outcomes of a call, as the observer records them *)

(* Fractions n/d in lowest terms, d > 0: the values float arithmetic on    *)
(* counts would give if it did not round                                   *)
RECURSIVE GCD(_, _)
GCD(a, b) == IF b = 0 THEN a ELSE GCD(b, a % b)

Rat(n, d) == <<n \div GCD(n, d), d \div GCD(n, d)>>

RatOne == <<1, 1>>

RatAdd(a, b) == Rat(a[1] * b[2] + b[1] * a[2], a[2] * b[2])

RatMul(a, b) == Rat(a[1] * b[1], a[2] * b[2])

RatDiv(a, b) == Rat(a[1] * b[2], a[2] * b[1])

(* Floats: 0.0, a fraction a, -math.log(a), or the quotient                *)
(* -math.log(a) / -math.log(b) of two logarithms with b # 1                *)
Float(form, a, b) == [form |-> form, a |-> a, b |-> b]

NoFloat == Float("none", RatOne, RatOne)

FloatZero == Float("zero", RatOne, RatOne)

FloatRat(a) == Float("rat", a, RatOne)

NegLog(a) == Float("neglog", a, RatOne)

(* x == 0 of a float x; -math.log(1.0) is -0.0, which equals 0 *)
IsZero(x) ==
    \/ x.form = "zero"
    \/ x.form = "neglog" /\ x.a = RatOne
    \/ x.form = "rat" /\ x.a[1] = 0

Res(kind, id, ids, paths, exc) ==
    [kind |-> kind, id |-> id, ids |-> ids, paths |-> paths, exc |-> exc,
     pairs |-> {}, float |-> NoFloat]

ResNone == Res("None", 0, <<>>, <<>>, "")

ResObj(id) == IF id = 0 THEN ResNone ELSE Res("Object", id, <<>>, <<>>, "")

ResList(ids) == Res("List", 0, ids, <<>>, "")

ResPaths(paths) == Res("Paths", 0, <<>>, paths, "")

ResInt(n) == Res("Int", n, <<>>, <<>>, "")

ResFloat(x) == [Res("Float", 0, <<>>, <<>>, "") EXCEPT !.float = x]

(* A set of (synset, integer) tuples *)
ResPairs(pairs) == [Res("Pairs", 0, <<>>, <<>>, "") EXCEPT !.pairs = pairs]

ResRaise(exc) == Res("Raise", 0, <<>>, <<>>, exc)

Call(op, key, str, pos, hit, reads, res) ==
    [op |-> op, key |-> key, str |-> str, pos |-> pos,
     hit |-> hit, reads |-> reads, res |-> res]

----------------------------------------------------------------------------
(* A GermaNet instance while a call runs: its two caches, the observers of *)
(* the synset cache and the number of database reads the call has made.    *)

Instance == [sc |-> synset_cache, lc |-> lemma_cache,
             rec |-> recency, cold |-> cold, reads |-> 0]

Touch(rec, id) == Without(rec, id) \o <<id>>

GetSynsetByIdNoPut(g, mongo_id) ==
    LET cache_hit == IF g.sc # NoCache THEN LRUCache_get_val(g.sc, mongo_id)
                     ELSE 0
    IN  IF cache_hit # 0
        THEN [g   |-> [g EXCEPT !.sc = LRUCache_get(g.sc, mongo_id),
                                !.rec = Touch(g.rec, mongo_id),
                                !.cold = FALSE],
              res |-> cache_hit,
              hit |-> TRUE]
        ELSE IF mongo_id \in DOMAIN synsets
        THEN [g   |-> [g EXCEPT !.reads = @ + 1,
                                !.rec = Touch(g.rec, mongo_id),
                                !.cold = g.cold /\ mongo_id \notin Range(g.rec)],
              res |-> mongo_id,
              hit |-> FALSE]
        ELSE [g   |-> [g EXCEPT !.reads = @ + 1],
              res |-> 0,
              hit |-> FALSE]

(* GermaNet.get_synset_by_id *)
GetSynsetById(g, mongo_id) ==
    LET cache_hit == IF g.sc # NoCache THEN LRUCache_get_val(g.sc, mongo_id)
                     ELSE 0
    IN  IF cache_hit # 0
        THEN [g   |-> [g EXCEPT !.sc = LRUCache_get(g.sc, mongo_id),
                                !.rec = Touch(g.rec, mongo_id),
                                !.cold = FALSE],
              res |-> cache_hit,
              hit |-> TRUE]
        ELSE IF mongo_id \in DOMAIN synsets
        THEN [g   |-> [g EXCEPT !.reads = @ + 1,
                                !.sc = IF g.sc # NoCache
                                       THEN LRUCache_put(g.sc, mongo_id)
                                       ELSE g.sc,
                                !.rec = Touch(g.rec, mongo_id),
                                !.cold = g.cold /\ mongo_id \notin Range(g.rec)],
              res |-> mongo_id,
              hit |-> FALSE]
        ELSE [g   |-> [g EXCEPT !.reads = @ + 1],
              res |-> 0,
              hit |-> FALSE]

GetLemmaByIdUncached(g, mongo_id) ==
    IF mongo_id \in DOMAIN lexunits
    THEN [g   |-> [g EXCEPT !.reads = @ + 1,
                            !.lc = IF g.lc # NoCache
                                   THEN LRUCache_put(g.lc, mongo_id)
                                   ELSE g.lc],
          res |-> mongo_id,
          hit |-> FALSE]
    ELSE [g   |-> [g EXCEPT !.reads = @ + 1],
          res |-> 0,
          hit |-> FALSE]

(* GermaNet.get_lemma_by_id *)
GetLemmaById(g, mongo_id) ==
    LET cache_hit == IF g.lc # NoCache THEN LRUCache_get_val(g.lc, mongo_id)
                     ELSE 0
    IN  IF cache_hit # 0
        THEN [g   |-> [g EXCEPT !.lc = LRUCache_get(g.lc, mongo_id)],
              res |-> cache_hit,
              hit |-> TRUE]
        ELSE IF mongo_id \in DOMAIN lexunits
        THEN [g   |-> [g EXCEPT !.reads = @ + 1,
                                !.lc = IF g.lc # NoCache
                                       THEN LRUCache_put(g.lc, mongo_id)
                                       ELSE g.lc],
              res |-> mongo_id,
              hit |-> FALSE]
        ELSE [g   |-> [g EXCEPT !.reads = @ + 1],
              res |-> 0,
              hit |-> FALSE]

(* The instance after a call: the caches and their observers *)
Keep(g) ==
    /\ synset_cache' = g.sc
    /\ lemma_cache' = g.lc
    /\ recency' = g.rec
    /\ cold' = g.cold

----------------------------------------------------------------------------
(* Calls on one GermaNet instance *)

(* Identities a caller may hold: those of the lexicon and one of no record *)
SynsetKeys == (1..(MaxCacheSize + 1)) \cup {NumSynsets + 1}

LemmaKeys == {1, NumSynsets + 1, NumSynsets + 2}

get_synset_by_id(mongo_id) ==
    LET r == GetSynsetById(Instance, mongo_id)
    IN  /\ Keep(r.g)
        /\ last' = Call("get_synset_by_id", mongo_id, <<>>, NoneStr,
                        r.hit, r.g.reads, ResObj(r.res))
        /\ UNCHANGED <<synsets, lexunits, metainfo, xml_path, runs>>

get_lemma_by_id(mongo_id) ==
    LET r == GetLemmaById(Instance, mongo_id)
    IN  /\ Keep(r.g)
        /\ last' = Call("get_lemma_by_id", mongo_id, <<>>, NoneStr,
                        r.hit, r.g.reads, ResObj(r.res))
        /\ UNCHANGED <<synsets, lexunits, metainfo, xml_path, runs>>

(* The cache_size property.  A value the caller assigns is an int, a bool  *)
(* or a float; type(new_value) == int admits only int.                     *)
CacheSizeOf(lc) == IF lc # NoCache THEN lc.size ELSE 0

NewValues ==
    [type : {"int"}, val : (0 - 1)..MaxCacheSize]
    \cup [type : {"bool", "float"}, val : {1}]

CacheSizeSetterSynsetKept(g, new_value) ==
    IF new_value.type = "int" /\ 0 < new_value.val /\ g.lc # NoCache
    THEN [g EXCEPT !.lc = LRUCache(new_value.val)]
    ELSE g

CacheSizeSetterIfChanged(g, new_value) ==
    IF new_value.type = "int" /\ 0 < new_value.val /\ g.lc # NoCache
       /\ new_value.val # g.lc.size
    THEN [g EXCEPT !.lc = LRUCache(new_value.val),
                   !.sc = LRUCache(new_value.val),
                   !.rec = <<>>, !.cold = TRUE]
    ELSE g

CacheSizeSetter(g, new_value) ==
    IF new_value.type = "int" /\ 0 < new_value.val
    THEN IF g.lc # NoCache
         THEN [g EXCEPT !.lc = LRUCache(new_value.val),
                        !.sc = LRUCache(new_value.val),
                        !.rec = <<>>, !.cold = TRUE]
         ELSE g
    ELSE g

cache_size_set(new_value) ==
    /\ Keep(CacheSizeSetter(Instance, new_value))
    /\ last' = Call("cache_size", new_value.val, <<new_value.type>>, NoneStr,
                    FALSE, 0, ResNone)
    /\ UNCHANGED <<synsets, lexunits, metainfo, xml_path, runs>>

----------------------------------------------------------------------------
(* Lookups by orthographic form *)

InsertSorted(sorted, l, key) ==
    LET k == CHOOSE i \in 1..(Len(sorted) + 1) :
                 /\ \A j \in 1..(i - 1) : ~KeyLess(key[l], key[sorted[j]])
                 /\ i <= Len(sorted) => KeyLess(key[l], key[sorted[i]])
    IN  SubSeq(sorted, 1, k - 1) \o <<l>> \o SubSeq(sorted, k, Len(sorted))

(* sorted(xs) by key; equal keys keep their order (the sort is stable) *)
RECURSIVE Sorted(_, _)
Sorted(xs, key) ==
    IF xs = <<>> THEN <<>>
    ELSE InsertSorted(Sorted(SubSeq(xs, 1, Len(xs) - 1), key), xs[Len(xs)], key)

(* Lemma.__lt__ compares (orthForm, pos, sense) *)
LemmaKey ==
    [l \in DOMAIN lexunits |->
        <<lexunits[l].orthForm, <<LONG_POS_TO_SHORT[lexunits[l].category]>>,
          lexunits[l].sense>>]

(* Synset.__lt__ compares (lemmas[0].orthForm, pos, lemmas[0].sense) *)
SynsetKey ==
    [s \in DOMAIN synsets |->
        <<lexunits[synsets[s].lexunits[1]].orthForm,
          <<LONG_POS_TO_SHORT[synsets[s].category]>>,
          lexunits[synsets[s].lexunits[1]].sense>>]

(* collection.find(query): the matching _ids, in insertion order *)
RECURSIVE Ascending(_)
Ascending(ids) ==
    IF ids = {} THEN <<>>
    ELSE LET m == CHOOSE x \in ids : \A y \in ids : x <= y
         IN  <<m>> \o Ascending(ids \ {m})

FindLexunits(query) ==
    Ascending({l \in DOMAIN lexunits :
                 \A field \in DOMAIN query : lexunits[l][field] = query[field]})

PosKnown(pos) == Len(pos) = 1 /\ pos[1] \in DOMAIN SHORT_POS_TO_LONG

(* GermaNet.lemmas: known is FALSE when the method returns None *)
Lemmas(lemma, pos) ==
    IF pos # NoneStr
    THEN IF ~PosKnown(pos)
         THEN [known |-> FALSE, ids |-> <<>>]
         ELSE [known |-> TRUE,
               ids   |-> Sorted(FindLexunits(
                                    [orthForm |-> lemma,
                                     category |-> SHORT_POS_TO_LONG[pos[1]]]),
                                LemmaKey)]
    ELSE [known |-> TRUE,
          ids   |-> Sorted(FindLexunits([orthForm |-> lemma]), LemmaKey)]

(* lemma_obj.synset for each lemma of a list, in order *)
RECURSIVE SynsetsOfLemmas(_, _)
SynsetsOfLemmas(g, ls) ==
    IF ls = <<>> THEN [g |-> g, ids |-> <<>>]
    ELSE With(GetSynsetById(g, lexunits[Head(ls)].synset), LAMBDA r :
         With(SynsetsOfLemmas(r.g, Tail(ls)), LAMBDA rest :
         [g |-> rest.g, ids |-> <<r.res>> \o rest.ids]))

(* Synset.lemmas: get_lemma_by_id for every member, in order *)
RECURSIVE SynsetLemmas(_, _)
SynsetLemmas(g, ls) ==
    IF ls = <<>> THEN g
    ELSE SynsetLemmas(GetLemmaById(g, Head(ls)).g, Tail(ls))

(* Synset.__lt__(self, other): self.lemmas twice, then other.lemmas twice *)
SynsetLt(g, self, other) ==
    SynsetLemmas(
        SynsetLemmas(
            SynsetLemmas(
                SynsetLemmas(g, synsets[self].lexunits),
                synsets[self].lexunits),
            synsets[other].lexunits),
        synsets[other].lexunits)

(* One comparison x < y made by the sort *)
IsLt(g, x, y) ==
    [g |-> SynsetLt(g, x, y), lt |-> KeyLess(SynsetKey[x], SynsetKey[y])]

(* list.sort, count_run: the ascending or strictly descending run that     *)
(* starts the list; i is the next element to compare with its predecessor. *)
RECURSIVE CountRun(_, _, _, _)
CountRun(g, xs, i, desc) ==
    IF i > Len(xs) THEN [g |-> g, n |-> Len(xs)]
    ELSE With(IsLt(g, xs[i], xs[i - 1]), LAMBDA c :
         IF c.lt = desc THEN CountRun(c.g, xs, i + 1, desc)
         ELSE [g |-> c.g, n |-> i - 1])

(* list.sort, binarysort: the place of pivot in the sorted xs[l .. r-1] *)
RECURSIVE BinarySearch(_, _, _, _, _)
BinarySearch(g, xs, pivot, l, r) ==
    LET p == l + ((r - l) \div 2)
    IN  With(IsLt(g, pivot, xs[p]), LAMBDA c :
        LET l2 == IF c.lt THEN l ELSE p + 1
            r2 == IF c.lt THEN p ELSE r
        IN  IF l2 < r2 THEN BinarySearch(c.g, xs, pivot, l2, r2)
            ELSE [g |-> c.g, at |-> l2])

RECURSIVE BinarySort(_, _, _)
BinarySort(g, xs, start) ==
    IF start > Len(xs) THEN [g |-> g, ids |-> xs]
    ELSE With(BinarySearch(g, xs, xs[start], 1, start), LAMBDA b :
         BinarySort(b.g,
                    SubSeq(xs, 1, b.at - 1) \o <<xs[start]>>
                    \o SubSeq(xs, b.at, start - 1)
                    \o SubSeq(xs, start + 1, Len(xs)),
                    start + 1))

Reversed(xs) == [i \in 1..Len(xs) |-> xs[Len(xs) + 1 - i]]

(* sorted(xs) of Synset objects (lists shorter than 64: one run extended   *)
(* by binary insertion); every comparison is a Synset.__lt__ call.         *)
SortedSynsets(g, xs) ==
    IF Len(xs) < 2 THEN [g |-> g, ids |-> xs]
    ELSE With(IsLt(g, xs[2], xs[1]), LAMBDA c :
         With(CountRun(c.g, xs, 3, c.lt), LAMBDA run :
         BinarySort(run.g,
                    IF c.lt
                    THEN Reversed(SubSeq(xs, 1, run.n))
                         \o SubSeq(xs, run.n + 1, Len(xs))
                    ELSE xs,
                    run.n + 1)))

(* The orders in which a set of objects may be iterated *)
Orders(S) == {xs \in [1..Cardinality(S) -> S] : Range(xs) = S}

(* GermaNet.synsets, given the order `xs` in which the set is iterated *)
Synsets(g, lemma, pos, xs) ==
    With(Lemmas(lemma, pos), LAMBDA ls :
    IF ~ls.known THEN [g |-> g, res |-> ResRaise("TypeError")]
    ELSE With(SortedSynsets(SynsetsOfLemmas(g, ls.ids).g, xs), LAMBDA r :
         [g |-> r.g, res |-> ResList(r.ids)]))

SynsetsFound(g, lemma, pos) ==
    With(Lemmas(lemma, pos), LAMBDA ls :
    IF ls.known THEN Range(SynsetsOfLemmas(g, ls.ids).ids) ELSE {})

(* lexunits.find_one({'orthForm': .., 'category': .., 'sense': ..}):      *)
(* the first match in insertion order, <<>> when there is none.            *)
First(found) == IF found = <<>> THEN <<>> ELSE <<found[1]>>

FindOneAnySense(lemma, category, sensenum) ==
    First(FindLexunits([orthForm |-> lemma, category |-> category]))

FindOne(lemma, category, sensenum) ==
    First(FindLexunits([orthForm |-> lemma, category |-> category,
                        sense |-> sensenum]))

(* GermaNet.synset *)
Synset(g, synset_repr) ==
    LET parts == Split(synset_repr)
    IN  IF Len(parts) # 3 THEN [g |-> g, res |-> ResNone]
        ELSE LET lemma    == parts[1]
                 pos      == parts[2]
                 sensenum == parts[3]
             IN  IF ~IsDigit(sensenum) \/ ~PosKnown(pos)
                 THEN [g |-> g, res |-> ResNone]
                 ELSE IF ~IntOK(sensenum)
                 THEN [g |-> g, res |-> ResRaise("ValueError")]
                 ELSE LET lemma_dict == FindOne(lemma, SHORT_POS_TO_LONG[pos[1]],
                                                IntValue(sensenum))
                          g1         == [g EXCEPT !.reads = @ + 1]
                      IN  IF lemma_dict = <<>> THEN [g |-> g1, res |-> ResNone]
                          ELSE LET r == GetSynsetById(
                                            g1, lexunits[lemma_dict[1]].synset)
                               IN  [g |-> r.g, res |-> ResObj(r.res)]

----------------------------------------------------------------------------
(* Arguments the callers pass *)

Forms == {OrthFormOf(l) : l \in LexunitIds} \cup {<<"b">>}

PosArgs == {NoneStr, <<"n">>, <<"v">>, <<"j">>, <<"x">>, <<"n", "n">>, <<>>}

DigitOf(n) == CHOOSE ch \in DecimalChars : Ord(ch) = 48 + n

SenseParts ==
    {<<DigitOf(1)>>, <<DigitOf(NumSynsets + 1)>>,
     <<"0", DigitOf(NumSynsets + 1)>>, <<"^2">>, <<"1", "a">>, <<>>}

Join(parts) ==
    IF Len(parts) = 2 THEN parts[1] \o <<".">> \o parts[2]
    ELSE IF Len(parts) = 3
    THEN parts[1] \o <<".">> \o parts[2] \o <<".">> \o parts[3]
    ELSE parts[1] \o <<".">> \o parts[2] \o <<".">> \o parts[3]
         \o <<".">> \o parts[4]

ReprArgs ==
    Forms
    \cup {Join(<<f, p>>) : f \in Forms, p \in {<<"n">>, <<"1">>}}
    \cup {Join(<<f, p, n>>) :
            f \in Forms, p \in PosArgs \ {NoneStr}, n \in SenseParts}
    \cup {Join(<<f, <<"n">>, n, m>>) :
            f \in Forms, n \in {<<"1">>, <<>>}, m \in {<<"1">>}}

(* GermaNet.__init__(mongo_db, cache_size = DEFAULT_CACHE_SIZE) *)
CacheSizeArgs ==
    {[given |-> FALSE, val |-> 0]}
    \cup {[given |-> TRUE, val |-> n] : n \in 1..MaxCacheSize}

GermaNet(arg) ==
    LET cache_size == IF arg.given THEN arg.val ELSE DEFAULT_CACHE_SIZE
    IN  [sc |-> LRUCache(cache_size), lc |-> LRUCache(cache_size),
         rec |-> <<>>, cold |-> TRUE, reads |-> 0]

(* The instance has served no call since it was constructed *)
FirstCall == last.op = "__init__"

lemmas(lemma, pos) ==
    LET ls == Lemmas(lemma, pos)
    IN  /\ FirstCall
        /\ Keep(Instance)
        /\ last' = Call("lemmas", 0, lemma, pos, FALSE,
                        IF ls.known THEN 1 ELSE 0,
                        IF ls.known THEN ResList(ls.ids) ELSE ResNone)
        /\ UNCHANGED <<synsets, lexunits, metainfo, xml_path, runs>>

synsets_of(lemma, pos) ==
    \E xs \in Orders(SynsetsFound(Instance, lemma, pos)) :
        LET r == Synsets(Instance, lemma, pos, xs)
        IN  /\ FirstCall
            /\ Keep(r.g)
            /\ last' = Call("synsets", 0, lemma, pos, FALSE, r.g.reads, r.res)
            /\ UNCHANGED <<synsets, lexunits, metainfo, xml_path, runs>>

synset(synset_repr) ==
    LET r == Synset(Instance, synset_repr)
    IN  /\ FirstCall
        /\ Keep(r.g)
        /\ last' = Call("synset", 0, synset_repr, NoneStr, FALSE,
                        r.g.reads, r.res)
        /\ UNCHANGED <<synsets, lexunits, metainfo, xml_path, runs>>

----------------------------------------------------------------------------
(* The query library on an imported lexicon *)

(* GermaNet(mongo_db) or GermaNet(mongo_db, cache_size = n) has returned *)
Constructed(args) ==
    /\ \E arg \in args :
          /\ lemma_cache = GermaNet(arg).lc
          /\ synset_cache = GermaNet(arg).sc
          /\ last = Call("__init__", arg.val,
                         IF arg.given THEN <<"int">> ELSE NoneStr, NoneStr,
                         FALSE, 0, ResNone)
    /\ recency = <<>>
    /\ cold = TRUE

Init ==
    /\ synsets = LexicalSynsets
    /\ lexunits = LexicalLexunits
    /\ metainfo = <<>>
    /\ xml_path = NoDirectory
    /\ runs = 0
    /\ Constructed(CacheSizeArgs)

Next ==
    \/ \E mongo_id \in SynsetKeys : get_synset_by_id(mongo_id)
    \/ \E mongo_id \in LemmaKeys : get_lemma_by_id(mongo_id)
    \/ \E new_value \in NewValues : cache_size_set(new_value)

Spec == Init /\ [][Next]_vars

(* Lookups, each the first call on an instance *)
NextLookup ==
    \/ \E lemma \in Forms, pos \in PosArgs : lemmas(lemma, pos)
    \/ \E lemma \in Forms, pos \in PosArgs : synsets_of(lemma, pos)
    \/ \E synset_repr \in ReprArgs : synset(synset_repr)

SpecLookup == Init /\ [][NextLookup]_vars

----------------------------------------------------------------------------
(* The relation pass of the importer, synset relations (con_rel).  The     *)
(* records name synsets by their vendor id, which the model identifies     *)
(* with the database identity.                                             *)

(* Relation names in the order Python compares the strings *)
RelNameOrder ==
    <<"has_antonym", "has_hypernym", "has_hyponym", "has_pertainym",
      "is_related_to">>

RelNameRank(name) == CHOOSE i \in DOMAIN RelNameOrder : RelNameOrder[i] = name

EdgeLess(e1, e2) ==
    IF e1[1] # e2[1] THEN RelNameRank(e1[1]) < RelNameRank(e2[1])
    ELSE e1[2] < e2[2]

RECURSIVE SortedEdgesDescending(_)
SortedEdgesDescending(edges) ==
    IF edges = {} THEN <<>>
    ELSE LET m == CHOOSE e \in edges : \A f \in edges \ {e} : EdgeLess(f, e)
         IN  <<m>> \o SortedEdgesDescending(edges \ {m})

(* sorted(set of (name, _id) pairs) *)
RECURSIVE SortedEdges(_)
SortedEdges(edges) ==
    IF edges = {} THEN <<>>
    ELSE LET m == CHOOSE e \in edges : \A f \in edges \ {e} : EdgeLess(e, f)
         IN  <<m>> \o SortedEdges(edges \ {m})

(* The loop over con_rels: rels[s] is the set synset s has collected *)
RECURSIVE AddConRels(_, _)
AddConRels(rels, con_rels) ==
    IF con_rels = <<>> THEN rels
    ELSE LET con_rel == Head(con_rels)
             fwd == [rels EXCEPT ![con_rel.from] =
                        @ \cup {<<con_rel.name, con_rel.to>>}]
             inv == IF con_rel.dir \in {"both", "revert"}
                    THEN [fwd EXCEPT ![con_rel.to] =
                             @ \cup {<<con_rel.inv, con_rel.from>>}]
                    ELSE fwd
         IN  AddConRels(inv, Tail(con_rels))

insert_relation_information(syns, con_rels) ==
    LET rels == AddConRels([s \in DOMAIN syns |-> {}], con_rels)
    IN  [s \in DOMAIN syns |-> [syns[s] EXCEPT !.rels = SortedEdges(rels[s])]]

(* The loop over lex_rels: rels[l] is the set lexical unit l has collected *)
AddLexRelsAsConRels(rels, lex_rels) == AddConRels(rels, lex_rels)

RECURSIVE AddLexRels(_, _)
AddLexRels(rels, lex_rels) ==
    IF lex_rels = <<>> THEN rels
    ELSE LET lex_rel == Head(lex_rels)
             fwd == [rels EXCEPT ![lex_rel.from] =
                        @ \cup {<<lex_rel.name, lex_rel.to>>}]
             inv == IF lex_rel.dir = "both"
                    THEN [fwd EXCEPT ![lex_rel.to] =
                             @ \cup {<<lex_rel.inv, lex_rel.from>>}]
                    ELSE fwd
         IN  AddLexRels(inv, Tail(lex_rels))

InsertLexRels(lexs, lex_rels) ==
    LET rels == AddLexRels([l \in DOMAIN lexs |-> {}], lex_rels)
    IN  [l \in DOMAIN lexs |-> [lexs[l] EXCEPT !.rels = SortedEdges(rels[l])]]

(* The whole pass, on the database insert_lexical_information has filled *)
relation_pass(lex_rels, con_rels) ==
    /\ last.op = "insert_lexical_information"
    /\ lexunits' = InsertLexRels(lexunits, lex_rels)
    /\ synsets' = insert_relation_information(synsets, con_rels)
    /\ last' = Call("insert_relation_information", 0, <<lex_rels, con_rels>>,
                    NoneStr, FALSE, 0, ResNone)
    /\ UNCHANGED <<metainfo, synset_cache, lemma_cache, recency, cold,
                   xml_path, runs>>

(* The records of gn_relations.xml tried: name, dir and inv of a record,  *)
(* between the first two lexical units or synsets                         *)
Relation(from, to, kind) ==
    [from |-> from, to |-> to, name |-> kind[1], dir |-> kind[2],
     inv |-> kind[3]]

LexRelKinds ==
    {<<"has_antonym", "both", "has_antonym">>,
     <<"has_pertainym", "one", "">>,
     <<"has_hypernym", "revert", "has_hyponym">>}

ConRelKinds ==
    {<<"is_related_to", "both", "is_related_to">>,
     <<"has_pertainym", "one", "">>,
     <<"has_hypernym", "revert", "has_hyponym">>}

RelationsOf(kinds) ==
    {Relation(1, 2, kind) : kind \in kinds}
    \cup {Relation(2, 1, kind) : kind \in kinds}

RelationLists(kinds) ==
    {<<>>} \cup {<<r>> : r \in RelationsOf(kinds)}
    \cup {<<r, q>> : r \in RelationsOf(kinds), q \in RelationsOf(kinds)}

InitRel ==
    /\ synsets = LexicalSynsets
    /\ lexunits = LexicalLexunits
    /\ metainfo = <<>>
    /\ xml_path = NoDirectory
    /\ runs = 0
    /\ synset_cache = NoCache
    /\ lemma_cache = NoCache
    /\ recency = <<>>
    /\ cold = TRUE
    /\ last = Call("insert_lexical_information", 0, <<>>, NoneStr, FALSE, 0,
                   ResNone)

NextRel ==
    \E lex_rels \in RelationLists(LexRelKinds),
       con_rels \in RelationLists(ConRelKinds) :
        relation_pass(lex_rels, con_rels)

SpecRel == InitRel /\ [][NextRel]_vars

(* A relation file with one has_hypernym record per pair of `edges` *)
Hypernymy(from, to) ==
    [from |-> from, to |-> to, name |-> "has_hypernym", dir |-> "revert",
     inv |-> "has_hyponym"]

RECURSIVE RelationFile(_)
RelationFile(edges) ==
    IF edges = {} THEN <<>>
    ELSE LET e == CHOOSE x \in edges : \A y \in edges \ {x} :
                      x[1] < y[1] \/ (x[1] = y[1] /\ x[2] < y[2])
         IN  <<Hypernymy(e[1], e[2])>> \o RelationFile(edges \ {e})

----------------------------------------------------------------------------
(* The hypernym hierarchy of Synset *)

(* Synset.rels(rel_name): get_synset_by_id for every edge of that name *)
RECURSIVE ResolveSynsets(_, _)
ResolveSynsets(g, ids) ==
    IF ids = <<>> THEN [g |-> g, objs |-> <<>>]
    ELSE With(GetSynsetById(g, Head(ids)), LAMBDA r :
         With(ResolveSynsets(r.g, Tail(ids)), LAMBDA rest :
         [g |-> rest.g, objs |-> <<r.res>> \o rest.objs]))

RECURSIVE TargetsNamed(_, _)
TargetsNamed(rels, rel_name) ==
    IF rels = <<>> THEN <<>>
    ELSE (IF Head(rels)[1] = rel_name THEN <<Head(rels)[2]>> ELSE <<>>)
         \o TargetsNamed(Tail(rels), rel_name)

SynsetRels(g, self, rel_name) ==
    ResolveSynsets(g, TargetsNamed(synsets[self].rels, rel_name))

Hypernyms(g, self) == SynsetRels(g, self, "has_hypernym")

(* Synset.hypernym_paths.  A path is a sequence of synsets, root first.    *)
(* The recursion has no end on a cycle of has_hypernym edges: a nesting    *)
(* deeper than the number of synsets is on a cycle and ends in Python's    *)
(* RecursionError.  A hypernym that resolved to None has no hypernym_paths *)
(* attribute (AttributeError).                                             *)
RECURSIVE HypernymPaths(_, _, _)
RECURSIVE PathsVia(_, _, _, _)

PathsViaFirstHypernym(g, hypernyms, self, depth) ==
    IF hypernyms = <<>> THEN [g |-> g, paths |-> <<>>, exc |-> ""]
    ELSE IF Head(hypernyms) = 0
    THEN [g |-> g, paths |-> <<>>, exc |-> "AttributeError"]
    ELSE With(HypernymPaths(g, Head(hypernyms), depth + 1), LAMBDA r :
         IF r.exc # "" THEN r
         ELSE [g     |-> r.g,
               paths |-> [i \in DOMAIN r.paths |-> Append(r.paths[i], self)],
               exc   |-> ""])

PathsVia(g, hypernyms, self, depth) ==
    IF hypernyms = <<>> THEN [g |-> g, paths |-> <<>>, exc |-> ""]
    ELSE IF Head(hypernyms) = 0
    THEN [g |-> g, paths |-> <<>>, exc |-> "AttributeError"]
    ELSE With(HypernymPaths(g, Head(hypernyms), depth + 1), LAMBDA r :
         IF r.exc # "" THEN r
         ELSE With(PathsVia(r.g, Tail(hypernyms), self, depth), LAMBDA rest :
              IF rest.exc # "" THEN rest
              ELSE [g     |-> rest.g,
                    paths |-> [i \in DOMAIN r.paths |->
                                  Append(r.paths[i], self)]
                              \o rest.paths,
                    exc   |-> ""]))

HypernymPaths(g, self, depth) ==
    IF depth > Cardinality(DOMAIN synsets)
    THEN [g |-> g, paths |-> <<>>, exc |-> "RecursionError"]
    ELSE With(Hypernyms(g, self), LAMBDA hypernyms :
         IF hypernyms.objs # <<>>
         THEN PathsVia(hypernyms.g, hypernyms.objs, self, depth)
         ELSE [g |-> hypernyms.g, paths |-> <<<<self>>>>, exc |-> ""])

SeqMin(ns) == CHOOSE n \in Range(ns) : \A m \in Range(ns) : n <= m

SeqMax(ns) == CHOOSE n \in Range(ns) : \A m \in Range(ns) : m <= n

PathLens(paths) == [i \in DOMAIN paths |-> Len(paths[i])]

MinDepthFirstPath(g, self) ==
    With(HypernymPaths(g, self, 1), LAMBDA r :
    [g |-> r.g,
     res |-> IF r.exc # "" THEN ResRaise(r.exc)
             ELSE ResInt(Len(r.paths[1]))])

MaxDepthInEdges(g, self) ==
    With(HypernymPaths(g, self, 1), LAMBDA r :
    [g |-> r.g,
     res |-> IF r.exc # "" THEN ResRaise(r.exc)
             ELSE ResInt(SeqMax(PathLens(r.paths)) - 1)])

(* Synset.min_depth, Synset.max_depth *)
MinDepth(g, self) ==
    With(HypernymPaths(g, self, 1), LAMBDA r :
    [g |-> r.g,
     res |-> IF r.exc # "" THEN ResRaise(r.exc)
             ELSE ResInt(SeqMin(PathLens(r.paths)))])

MaxDepth(g, self) ==
    With(HypernymPaths(g, self, 1), LAMBDA r :
    [g |-> r.g,
     res |-> IF r.exc # "" THEN ResRaise(r.exc)
             ELSE ResInt(SeqMax(PathLens(r.paths)))])

PathHeads(paths) == {paths[i][1] : i \in DOMAIN paths}

(* Synset.root_hypernyms, given the order `xs` in which the set of path    *)
(* heads is iterated                                                       *)
RootHypernyms(g, self, xs) ==
    With(HypernymPaths(g, self, 1), LAMBDA r :
    IF r.exc # "" THEN [g |-> r.g, res |-> ResRaise(r.exc)]
    ELSE With(SortedSynsets(r.g, xs), LAMBDA sorted :
         [g |-> sorted.g, res |-> ResList(sorted.ids)]))

RootsFound(g, self) ==
    With(HypernymPaths(g, self, 1), LAMBDA r :
    IF r.exc # "" THEN {} ELSE PathHeads(r.paths))

(* Synset.hypernym_distances: (synset, idx) for idx, synset in             *)
(* enumerate(reversed(path)), of every path                                *)
PathDistances(paths) ==
    UNION {{<<paths[i][Len(paths[i]) - idx], idx>> :
               idx \in 0..(Len(paths[i]) - 1)} : i \in DOMAIN paths}

HypernymDistancesAnyPath(g, self) ==
    With(HypernymPaths(g, self, 1), LAMBDA r :
    [g |-> r.g,
     res |-> IF r.exc # "" THEN ResRaise(r.exc)
             ELSE ResPairs(PathDistances(r.paths))])

(* retval keeps, for each synset, the least dist seen *)
HypernymDistances(g, self) ==
    With(HypernymPaths(g, self, 1), LAMBDA r :
    [g |-> r.g,
     res |-> IF r.exc # "" THEN ResRaise(r.exc)
             ELSE ResPairs({p \in PathDistances(r.paths) :
                              \A q \in PathDistances(r.paths) :
                                  q[1] = p[1] => p[2] <= q[2]})])

hypernym_distances(self) ==
    LET r == HypernymDistances(Instance, self)
    IN  /\ FirstCall
        /\ Keep(r.g)
        /\ last' = Call("hypernym_distances", self, <<>>, NoneStr, FALSE,
                        r.g.reads, r.res)
        /\ UNCHANGED <<synsets, lexunits, metainfo, xml_path, runs>>

hypernym_paths(self) ==
    LET r == HypernymPaths(Instance, self, 1)
    IN  /\ FirstCall
        /\ Keep(r.g)
        /\ last' = Call("hypernym_paths", self, <<>>, NoneStr, FALSE, r.g.reads,
                        IF r.exc # "" THEN ResRaise(r.exc)
                        ELSE ResPaths(r.paths))
        /\ UNCHANGED <<synsets, lexunits, metainfo, xml_path, runs>>

min_depth(self) ==
    LET r == MinDepth(Instance, self)
    IN  /\ FirstCall
        /\ Keep(r.g)
        /\ last' = Call("min_depth", self, <<>>, NoneStr, FALSE, r.g.reads,
                        r.res)
        /\ UNCHANGED <<synsets, lexunits, metainfo, xml_path, runs>>

max_depth(self) ==
    LET r == MaxDepth(Instance, self)
    IN  /\ FirstCall
        /\ Keep(r.g)
        /\ last' = Call("max_depth", self, <<>>, NoneStr, FALSE, r.g.reads,
                        r.res)
        /\ UNCHANGED <<synsets, lexunits, metainfo, xml_path, runs>>

root_hypernyms(self) ==
    \E xs \in Orders(RootsFound(Instance, self)) :
        LET r == RootHypernyms(Instance, self, xs)
        IN  /\ FirstCall
            /\ Keep(r.g)
            /\ last' = Call("root_hypernyms", self, <<>>, NoneStr, FALSE,
                            r.g.reads, r.res)
            /\ UNCHANGED <<synsets, lexunits, metainfo, xml_path, runs>>

(* Lexicons whose has_hypernym edges form no cycle: every edge runs from   *)
(* a synset to one that precedes it in `order`.                            *)
EdgesAlong(order, picked) ==
    {<<order[p[1]], order[p[2]]>> : p \in picked}

Backward == {p \in SynsetIds \X SynsetIds : p[2] < p[1]}

SynsetOrders ==
    {[s \in SynsetIds |-> s], [s \in SynsetIds |-> NumSynsets + 1 - s]}

(* The default cache, and the smallest one, which keeps a single synset *)
(* while hypernym_paths descends                                        *)
HierCacheSizeArgs == {arg \in CacheSizeArgs : ~arg.given \/ arg.val = 1}

InitHier ==
    /\ \E order \in SynsetOrders, picked \in SUBSET Backward :
          synsets = insert_relation_information(
                        LexicalSynsets,
                        RelationFile(EdgesAlong(order, picked)))
    /\ lexunits = LexicalLexunits
    /\ metainfo = <<>>
    /\ xml_path = NoDirectory
    /\ runs = 0
    /\ Constructed(HierCacheSizeArgs)

NextHier ==
    \E self \in SynsetIds :
        \/ hypernym_paths(self)
        \/ min_depth(self)
        \/ max_depth(self)
        \/ root_hypernyms(self)
        \/ hypernym_distances(self)

SpecHier == InitHier /\ [][NextHier]_vars

----------------------------------------------------------------------------
(* The passes of the importer that follow the relation pass *)

(* The GermaNet object a pass builds for itself: GermaNet(germanet_db) *)
PassInstance == GermaNet([given |-> FALSE, val |-> 0])

RatTimes(a, k) == RatMul(a, <<k, 1>>)

AddPathsOncePerSynset(gn_counts, paths, scount) ==
    [ss \in DOMAIN gn_counts |->
        IF \E i \in DOMAIN paths : ss \in Range(paths[i])
        THEN RatAdd(gn_counts[ss], scount)
        ELSE gn_counts[ss]]

(* gn_counts[ss._id] += scount, for ss in path, for path in paths (a path  *)
(* is no longer than the number of synsets)                                *)
Occurrences(paths, ss) ==
    Cardinality({ij \in (DOMAIN paths) \X (DOMAIN synsets) :
                    /\ ij[2] \in DOMAIN paths[ij[1]]
                    /\ paths[ij[1]][ij[2]] = ss})

AddPaths(gn_counts, paths, scount) ==
    [ss \in DOMAIN gn_counts |->
        RatAdd(gn_counts[ss], RatTimes(scount, Occurrences(paths, ss)))]

(* for synset in synsets: acc holds gn_counts, total_count and the         *)
(* exception that ended the pass, if any                                   *)
RECURSIVE CountSynsets(_, _, _, _)
CountSynsets(g, acc, todo, count) ==
    IF todo = <<>> THEN acc
    ELSE With(HypernymPaths(g, Head(todo), 1), LAMBDA r :
         IF r.exc # "" THEN [acc EXCEPT !.exc = r.exc]
         ELSE CountSynsets(
                  r.g,
                  [acc EXCEPT
                      !.total_count = RatAdd(@, count),
                      !.gn_counts = AddPaths(@, r.paths,
                                             RatDiv(count,
                                                    <<Len(r.paths), 1>>))],
                  Tail(todo), count))

(* for line in input_file: a line is the sequence of its tab-separated     *)
(* fields                                                                  *)
RECURSIVE CountLines(_, _, _)
CountLines(g, acc, lines) ==
    IF lines = <<>> \/ acc.exc # "" THEN acc
    ELSE IF Len(Head(lines)) # 3 THEN CountLines(g, acc, Tail(lines))
    ELSE IF ~IntOK(Head(lines)[1]) THEN [acc EXCEPT !.exc = "ValueError"]
    ELSE IF ~Lemmas(Head(lines)[3], Head(lines)[2]).known
    THEN [acc EXCEPT !.exc = "TypeError"]
    ELSE With(SynsetsFound(g, Head(lines)[3], Head(lines)[2]), LAMBDA found :
         IF found = {} THEN CountLines(g, acc, Tail(lines))
         ELSE CountLines(
                  g,
                  CountSynsets(g, acc, Ascending(found),
                               Rat(IntValue(Head(lines)[1]),
                                   Cardinality(found))),
                  Tail(lines)))

(* gn_counts = defaultdict(lambda: 1.), total_count = 1 *)
Counted(lines) ==
    CountLines(PassInstance,
               [gn_counts   |-> [ss \in DOMAIN synsets |-> RatOne],
                total_count |-> RatOne,
                exc         |-> ""],
               lines)

WithInfocont(doc, infocont) ==
    [field \in DOMAIN doc \cup {"infocont"} |->
        IF field = "infocont" THEN infocont ELSE doc[field]]

ResCounts(acc) ==
    [Res("Counts", 0, <<>>, <<>>, "") EXCEPT
        !.pairs = {<<ss, acc.gn_counts[ss]>> : ss \in DOMAIN acc.gn_counts},
        !.float = FloatRat(acc.total_count)]

(* The step of the pipeline that has just run *)
After(op) == last.op = op /\ last.res.kind # "Raise"

insert_infocontent_data(lines) ==
    LET acc == Counted(lines)
    IN  /\ After("insert_lemmatisation_data")
        /\ synsets' =
              IF acc.exc # "" THEN synsets
              ELSE [ss \in DOMAIN synsets |->
                       WithInfocont(synsets[ss],
                                    RatDiv(acc.gn_counts[ss],
                                           acc.total_count))]
        /\ last' = Call("insert_infocontent_data", 0, lines, NoneStr, FALSE, 0,
                        IF acc.exc # "" THEN ResRaise(acc.exc)
                        ELSE ResCounts(acc))
        /\ UNCHANGED <<lexunits, metainfo, synset_cache, lemma_cache,
                       recency, cold, xml_path, runs>>

(* The state after the passes that come before the information content    *)
(* pass have run: the relation pass on the relation file con_rels, the     *)
(* paraphrase pass on no paraphrase, the lemmatisation pass                *)
Imported(con_rels) ==
    /\ synsets = insert_relation_information(LexicalSynsets, con_rels)
    /\ lexunits = LexicalLexunits
    /\ metainfo = <<>>
    /\ xml_path = NoDirectory
    /\ runs = 0
    /\ synset_cache = NoCache
    /\ lemma_cache = NoCache
    /\ recency = <<>>
    /\ cold = TRUE
    /\ last = Call("insert_lemmatisation_data", 0, <<>>, NoneStr, FALSE, 0,
                   ResNone)

(* Relation files whose has_hypernym edges run to synsets inserted earlier *)
DownwardRelationFiles ==
    {RelationFile(EdgesAlong([s \in SynsetIds |-> s], picked)) :
        picked \in SUBSET Backward}

(* Lines of the word count file: count, part of speech, word *)
NounLines ==
    {<<<<"3">>, <<"n">>, <<"a">>>>,
     <<<<"2">>, <<"n">>, <<"a", "a">>>>}

CountLinesTried ==
    NounLines \cup
    {<<<<"2">>, <<"v">>, <<"a", "a">>>>,
     <<<<"2">>, <<"v">>, <<"a">>>>,
     <<<<"5">>, <<"n">>, <<"a", "a">>>>,
     <<<<"2">>, <<"n">>>>,
     <<<<"2">>, <<"x">>, <<"a">>>>}

WordCountFiles ==
    {<<>>} \cup {<<l>> : l \in CountLinesTried}
    \cup {<<l, m>> : l \in NounLines, m \in CountLinesTried}

InitInfo == \E con_rels \in DownwardRelationFiles : Imported(con_rels)

NextInfo == \E lines \in WordCountFiles : insert_infocontent_data(lines)

SpecInfo == InitInfo /\ [][NextInfo]_vars

(* compute_max_min_depth: the greatest min_depth of each category's       *)
(* synsets; min_depth does not depend on what the pass's instance caches  *)
MaxMinDepths ==
    [category \in {synsets[ss].category : ss \in DOMAIN synsets} |->
        SeqMax([i \in 1..Cardinality({ss \in DOMAIN synsets :
                                         synsets[ss].category = category}) |->
                   MinDepth(PassInstance,
                            Ascending({ss \in DOMAIN synsets :
                                         synsets[ss].category = category})[i]
                           ).res.id])]

MinDepthRaises ==
    {MinDepth(PassInstance, ss).res.exc : ss \in DOMAIN synsets} \ {""}

AppendMaxMinDepths(docs, depths) ==
    Append(docs, [max_min_depths |-> depths])

(* if metainfo.count() == 0: insert({}); then the first document gets the  *)
(* mapping and is saved                                                    *)
SaveMaxMinDepths(docs, depths) ==
    IF docs = <<>> THEN <<[max_min_depths |-> depths]>>
    ELSE [docs EXCEPT ![1] = [max_min_depths |-> depths]]

compute_max_min_depth ==
    /\ After("insert_infocontent_data")
    /\ metainfo' = IF MinDepthRaises # {} THEN metainfo
                   ELSE SaveMaxMinDepths(metainfo, MaxMinDepths)
    /\ last' = Call("compute_max_min_depth", 0, <<>>, NoneStr, FALSE, 0,
                    IF MinDepthRaises # {}
                    THEN ResRaise(CHOOSE exc \in MinDepthRaises : TRUE)
                    ELSE ResNone)
    /\ UNCHANGED <<synsets, lexunits, synset_cache, lemma_cache, recency,
                   cold, xml_path, runs>>

(* self.max_min_depths after __init__: {} unless metainfo.find_one() finds *)
(* a document, whose fields the instance takes over                        *)
LoadedMaxMinDepths ==
    IF metainfo = <<>> THEN {}
    ELSE {<<category, metainfo[1].max_min_depths[category]>> :
             category \in DOMAIN metainfo[1].max_min_depths}

(* GermaNet.__init__ on the database, once the import has completed or    *)
(* before it has begun                                                     *)
GermaNet_init(arg) ==
    /\ After("compute_max_min_depth") \/ After("find_germanet_xml_files")
    /\ Keep(GermaNet(arg))
    /\ last' = Call("__init__", arg.val,
                    IF arg.given THEN <<"int">> ELSE NoneStr, NoneStr,
                    FALSE, 0, [ResNone EXCEPT !.pairs = LoadedMaxMinDepths])
    /\ UNCHANGED <<synsets, lexunits, metainfo, xml_path, runs>>

----------------------------------------------------------------------------
(* Common hypernyms, path length and the similarity measures of Synset *)

(* An argument that is not a Synset *)
NotASynset == 0

IsSynset(other) == other # NotASynset

(* self._germanet.max_min_depths, loaded by __init__ from metainfo, which *)
(* no step changes once an instance exists                                *)
InstanceMaxMinDepths ==
    IF metainfo = <<>> THEN <<>> ELSE metainfo[1].max_min_depths

(* synset.infocont: the class default 0. when the document has no field *)
Infocont(ss) ==
    IF "infocont" \in DOMAIN synsets[ss] THEN synsets[ss].infocont
    ELSE <<0, 1>>

(* A set of synsets *)
ResSet(members) == [Res("Set", 0, <<>>, <<>>, "") EXCEPT !.pairs = members]

SelfDistsOnly(self_dists, other_dists) ==
    {sd \in self_dists : \E od \in other_dists : od[1] = sd[1]}

(* common[synset] = self_dists[synset] + other_dists[synset] *)
CommonDists(self_dists, other_dists) ==
    {<<x[1][1], x[1][2] + x[2][2]>> :
        x \in {y \in self_dists \X other_dists : y[1][1] = y[2][1]}}

(* Synset._common_hypernyms: pairs holds (synset, summed distance) *)
CommonHypernyms(g, self, other) ==
    IF ~IsSynset(other) THEN [g |-> g, res |-> ResPairs({})]
    ELSE With(HypernymDistances(g, self), LAMBDA sd :
         IF sd.res.kind = "Raise" THEN sd
         ELSE With(HypernymDistances(sd.g, other), LAMBDA od :
              IF od.res.kind = "Raise" THEN od
              ELSE [g   |-> od.g,
                    res |-> ResPairs(CommonDists(sd.res.pairs,
                                                 od.res.pairs))]))

LeastDist(common) ==
    CHOOSE d \in {x[2] : x \in common} : \A x \in common : d <= x[2]

AllCommon(common) == {x[1] : x \in common}

(* the synsets of common_hypers whose dist is min_dist *)
Nearest(common) == {x[1] : x \in {y \in common : y[2] = LeastDist(common)}}

NearestCommonHypernyms(g, self, other) ==
    With(CommonHypernyms(g, self, other), LAMBDA c :
    IF c.res.kind = "Raise" THEN c
    ELSE IF c.res.pairs = {} THEN [g |-> c.g, res |-> ResSet({})]
    ELSE [g |-> c.g, res |-> ResSet(Nearest(c.res.pairs))])

(* Synset.__eq__ *)
SynsetEq(self, other) == IsSynset(other) /\ self = other

ShortestPathLength(g, self, other) ==
    IF SynsetEq(self, other) THEN [g |-> g, res |-> ResInt(0)]
    ELSE With(CommonHypernyms(g, self, other), LAMBDA c :
         IF c.res.kind = "Raise" THEN c
         ELSE IF c.res.pairs = {} THEN [g |-> c.g, res |-> ResNone]
         ELSE [g |-> c.g, res |-> ResInt(LeastDist(c.res.pairs))])

SimLch(g, self, other) ==
    IF ~IsSynset(other) THEN [g |-> g, res |-> ResFloat(FloatZero)]
    ELSE IF synsets[self].category # synsets[other].category
    THEN [g |-> g, res |-> ResFloat(FloatZero)]
    ELSE With(ShortestPathLength(g, self, other), LAMBDA pl :
         IF pl.res.kind = "Raise" THEN pl
         ELSE IF pl.res.kind = "None"
         THEN [g |-> pl.g, res |-> ResFloat(FloatZero)]
         ELSE IF synsets[self].category \notin DOMAIN InstanceMaxMinDepths
         THEN [g |-> pl.g, res |-> ResRaise("KeyError")]
         ELSE IF InstanceMaxMinDepths[synsets[self].category] = 0
         THEN [g |-> pl.g, res |-> ResRaise("ZeroDivisionError")]
         ELSE [g   |-> pl.g,
               res |-> ResFloat(NegLog(Rat(
                           pl.res.id + 1,
                           2 * InstanceMaxMinDepths[
                                   synsets[self].category])))])

(* min(infoconts) over the nonzero ones *)
LeastProb(members) ==
    CHOOSE x \in {Infocont(m) : m \in members} \ {<<0, 1>>} :
        \A y \in {Infocont(m) : m \in members} \ {<<0, 1>>} :
            x[1] * y[2] <= y[1] * x[2]

SimRes(g, self, other) ==
    IF ~IsSynset(other) THEN [g |-> g, res |-> ResFloat(FloatZero)]
    ELSE With(NearestCommonHypernyms(g, self, other), LAMBDA c :
         IF c.res.kind = "Raise" THEN c
         ELSE IF {Infocont(m) : m \in c.res.pairs} \ {<<0, 1>>} = {}
         THEN [g |-> c.g, res |-> ResFloat(FloatZero)]
         ELSE [g |-> c.g, res |-> ResFloat(NegLog(LeastProb(c.res.pairs)))])

(* The probability whose negative log a float is: 0. is -log(1) *)
ProbOf(x) == IF x.form = "neglog" THEN x.a ELSE RatOne

(* ic1 + ic2 - 2. * ic_lcs, each term a negative log *)
JcnValue(p1, p2, ic_lcs) ==
    NegLog(RatDiv(RatMul(p1, p2), RatMul(ProbOf(ic_lcs), ProbOf(ic_lcs))))

(* 2. * ic_lcs / (ic1 + ic2): log a / log b *)
LinValue(p1, p2, ic_lcs) ==
    Float("logratio", RatMul(ProbOf(ic_lcs), ProbOf(ic_lcs)), RatMul(p1, p2))

DistJcn(g, self, other) ==
    IF ~IsSynset(other) THEN [g |-> g, res |-> ResRaise("AttributeError")]
    ELSE IF Infocont(self)[1] = 0 \/ Infocont(other)[1] = 0
    THEN [g |-> g, res |-> ResFloat(FloatZero)]
    ELSE With(SimRes(g, self, other), LAMBDA r :
         IF r.res.kind = "Raise" THEN r
         ELSE [g   |-> r.g,
               res |-> ResFloat(JcnValue(Infocont(self), Infocont(other),
                                         r.res.float))])

SimLin(g, self, other) ==
    IF ~IsSynset(other) THEN [g |-> g, res |-> ResRaise("AttributeError")]
    ELSE IF Infocont(self)[1] = 0 \/ Infocont(other)[1] = 0
    THEN [g |-> g, res |-> ResFloat(FloatZero)]
    ELSE With(SimRes(g, self, other), LAMBDA r :
         IF r.res.kind = "Raise" THEN r
         ELSE IF RatMul(Infocont(self), Infocont(other)) = RatOne
         THEN [g |-> r.g, res |-> ResRaise("ZeroDivisionError")]
         ELSE [g   |-> r.g,
               res |-> ResFloat(LinValue(Infocont(self), Infocont(other),
                                         r.res.float))])

shortest_path_length(self, other) ==
    LET r == ShortestPathLength(Instance, self, other)
    IN  /\ FirstCall
        /\ Keep(r.g)
        /\ last' = Call("shortest_path_length", <<self, other>>, <<>>, NoneStr, FALSE,
                        r.g.reads, r.res)
        /\ UNCHANGED <<synsets, lexunits, metainfo, xml_path, runs>>

nearest_common_hypernyms(self, other) ==
    LET r == NearestCommonHypernyms(Instance, self, other)
    IN  /\ FirstCall
        /\ Keep(r.g)
        /\ last' = Call("nearest_common_hypernyms", <<self, other>>, <<>>, NoneStr, FALSE,
                        r.g.reads, r.res)
        /\ UNCHANGED <<synsets, lexunits, metainfo, xml_path, runs>>

sim_lch(self, other) ==
    LET r == SimLch(Instance, self, other)
    IN  /\ FirstCall
        /\ Keep(r.g)
        /\ last' = Call("sim_lch", <<self, other>>, <<>>, NoneStr, FALSE,
                        r.g.reads, r.res)
        /\ UNCHANGED <<synsets, lexunits, metainfo, xml_path, runs>>

sim_res(self, other) ==
    LET r == SimRes(Instance, self, other)
    IN  /\ FirstCall
        /\ Keep(r.g)
        /\ last' = Call("sim_res", <<self, other>>, <<>>, NoneStr, FALSE,
                        r.g.reads, r.res)
        /\ UNCHANGED <<synsets, lexunits, metainfo, xml_path, runs>>

dist_jcn(self, other) ==
    LET r == DistJcn(Instance, self, other)
    IN  /\ FirstCall
        /\ Keep(r.g)
        /\ last' = Call("dist_jcn", <<self, other>>, <<>>, NoneStr, FALSE,
                        r.g.reads, r.res)
        /\ UNCHANGED <<synsets, lexunits, metainfo, xml_path, runs>>

sim_lin(self, other) ==
    LET r == SimLin(Instance, self, other)
    IN  /\ FirstCall
        /\ Keep(r.g)
        /\ last' = Call("sim_lin", <<self, other>>, <<>>, NoneStr, FALSE,
                        r.g.reads, r.res)
        /\ UNCHANGED <<synsets, lexunits, metainfo, xml_path, runs>>

(* Relation files whose has_hypernym edges run one or two synsets back *)
NearRelationFiles ==
    {RelationFile(picked) :
        picked \in SUBSET {p \in Backward : p[1] - p[2] <= 2}}

(* No counted line, one line for a synset, one line shared by two *)
SimWordCountFiles == {<<>>} \cup {<<l>> : l \in NounLines}

Others == SynsetIds \cup {NotASynset}

InitSim == \E con_rels \in NearRelationFiles : Imported(con_rels)

NextSim ==
    \/ \E lines \in SimWordCountFiles : insert_infocontent_data(lines)
    \/ compute_max_min_depth
    \/ GermaNet_init([given |-> FALSE, val |-> 0])
    \/ \E self \in SynsetIds, other \in Others :
          \/ shortest_path_length(self, other)
          \/ nearest_common_hypernyms(self, other)
          \/ sim_lch(self, other)
          \/ sim_res(self, other)
          \/ dist_jcn(self, other)
          \/ sim_lin(self, other)

SpecSim == InitSim /\ [][NextSim]_vars

----------------------------------------------------------------------------
(* Synset.rels and Lemma.rels on a database that has lost documents *)

RECURSIVE ResolveLemmas(_, _)
ResolveLemmas(g, ids) ==
    IF ids = <<>> THEN [g |-> g, objs |-> <<>>]
    ELSE With(GetLemmaById(g, Head(ids)), LAMBDA r :
         With(ResolveLemmas(r.g, Tail(ids)), LAMBDA rest :
         [g |-> rest.g, objs |-> <<r.res>> \o rest.objs]))

(* Lemma.rels(rel_name): get_lemma_by_id for every edge of that name *)
LemmaRels(g, self, rel_name) ==
    ResolveLemmas(g, TargetsNamed(lexunits[self].rels, rel_name))

(* rels(): (name, object) for every edge, in stored order *)
AllTargets(rels) == [i \in DOMAIN rels |-> rels[i][2]]

Named(rels, objs) == [i \in DOMAIN rels |-> <<rels[i][1], objs[i]>>]

(* A list of (rel_name, object) tuples; object 0 is None *)
ResTuples(tuples) == [Res("Tuples", 0, <<>>, <<>>, "") EXCEPT !.paths = tuples]

(* The rel_name of a call without argument *)
NoRelName == "<None>"

Synset_rels(self, rel_name) ==
    LET r == IF rel_name # NoRelName THEN SynsetRels(Instance, self, rel_name)
             ELSE ResolveSynsets(Instance, AllTargets(synsets[self].rels))
    IN  /\ FirstCall
        /\ self \in DOMAIN synsets
        /\ Keep(r.g)
        /\ last' = Call("Synset.rels", self, rel_name, NoneStr, FALSE,
                        r.g.reads,
                        IF rel_name # NoRelName THEN ResList(r.objs)
                        ELSE ResTuples(Named(synsets[self].rels, r.objs)))
        /\ UNCHANGED <<synsets, lexunits, metainfo, xml_path, runs>>

Lemma_rels(self, rel_name) ==
    LET r == IF rel_name # NoRelName THEN LemmaRels(Instance, self, rel_name)
             ELSE ResolveLemmas(Instance, AllTargets(lexunits[self].rels))
    IN  /\ FirstCall
        /\ self \in DOMAIN lexunits
        /\ Keep(r.g)
        /\ last' = Call("Lemma.rels", self, rel_name, NoneStr, FALSE,
                        r.g.reads,
                        IF rel_name # NoRelName THEN ResList(r.objs)
                        ELSE ResTuples(Named(lexunits[self].rels, r.objs)))
        /\ UNCHANGED <<synsets, lexunits, metainfo, xml_path, runs>>

(* The documents of `docs` other than those another client of the        *)
(* database removed                                                       *)
Remaining(docs, removed) == [x \in DOMAIN docs \ removed |-> docs[x]]

(* Relation lists of at most one record, leaving the first document *)
ShortRelationLists(kinds) ==
    {<<>>} \cup {<<Relation(1, 2, kind)>> : kind \in kinds}

RelNames == {RelNameOrder[i] : i \in DOMAIN RelNameOrder}

InitRels ==
    /\ \E lex_rels \in ShortRelationLists(LexRelKinds),
          con_rels \in ShortRelationLists(ConRelKinds),
          lost_lexunits \in SUBSET {2}, lost_synsets \in SUBSET {2} :
          /\ lexunits = Remaining(InsertLexRels(LexicalLexunits, lex_rels),
                                  lost_lexunits)
          /\ synsets = Remaining(insert_relation_information(LexicalSynsets,
                                                             con_rels),
                                 lost_synsets)
    /\ metainfo = <<>>
    /\ xml_path = NoDirectory
    /\ runs = 0
    /\ Constructed({[given |-> FALSE, val |-> 0]})

NextRels ==
    \E self \in 1..2, rel_name \in RelNames \cup {NoRelName} :
        \/ Synset_rels(self, rel_name)
        \/ Lemma_rels(self, rel_name)

SpecRels == InitRels /\ [][NextRels]_vars

----------------------------------------------------------------------------
(* scripts/filter_wordcounts.py: the SdeWaC word counts kept for GermaNet *)

(* The STTS labels of STTS_GERMANET_MAPPING, by the code they map to *)
SttsBlank ==
    {"$(", "$,", "$.", "APPO", "APPR", "APPRART", "APZR", "ART", "ITJ",
     "KOKOM", "KON", "KOUI", "KOUS", "PAV", "PROAV", "PDAT", "PDS",
     "PPER", "PPOSAT", "PPOSS", "PRELAT", "PRELS", "PRF", "PTKA",
     "PTKANT", "PTKNEG", "PTKVZ", "PTKZU", "PWAT", "PWAV", "PWS",
     "TRUNC"}

SttsAdjective ==
    {"ADJ", "ADJA", "ADJD", "ADV", "CARD", "PIAT", "PIS"}

SttsNoun ==
    {"FM", "NE", "NN", "XY"}

SttsVerb ==
    {"VAFIN", "VAIMP", "VAINF", "VAPP", "VMFIN", "VMINF", "VMPP",
     "VVFIN", "VVIMP", "VVINF", "VVIZU", "VVPP"}

STTS_GERMANET_MAPPING ==
    [pos \in SttsBlank \cup SttsAdjective \cup SttsNoun \cup SttsVerb |->
        IF pos \in SttsAdjective THEN "j"
        ELSE IF pos \in SttsNoun THEN "n"
        ELSE IF pos \in SttsVerb THEN "v"
        ELSE " "]

(* gn_words = set(x['orthForm'] for x in germanet.lexunits.find()) *)
GnWords == {lexunits[l].orthForm : l \in DOMAIN lexunits}

VariantFields == <<"orthVar", "oldOrthForm", "oldOrthVar">>

(* gn_rewrites[x[field]] = x['orthForm'] *)
Put(dict, key, value) ==
    [k \in DOMAIN dict \cup {key} |-> IF k = key THEN value ELSE dict[k]]

RECURSIVE PutVariants(_, _, _)
PutVariants(dict, x, fields) ==
    IF fields = <<>> THEN dict
    ELSE PutVariants(IF Head(fields) \in DOMAIN x
                     THEN Put(dict, x[Head(fields)], x.orthForm)
                     ELSE dict,
                     x, Tail(fields))

(* for x in germanet.lexunits.find(), in insertion order *)
RECURSIVE GnRewritesFrom(_, _)
GnRewritesFrom(dict, ids) ==
    IF ids = <<>> THEN dict
    ELSE GnRewritesFrom(PutVariants(dict, lexunits[Head(ids)], VariantFields),
                        Tail(ids))

GnRewrites == GnRewritesFrom(<<>>, Ascending(DOMAIN lexunits))

NotRewritten(gn_rewrites, lemma) == lemma

(* gn_rewrites.get(lemma, lemma) *)
Rewritten(gn_rewrites, lemma) ==
    IF lemma \in DOMAIN gn_rewrites THEN gn_rewrites[lemma] ELSE lemma

(* STTS_GERMANET_MAPPING.get(pos, ' ') *)
MappedPos(pos) ==
    IF pos \in DOMAIN STTS_GERMANET_MAPPING THEN STTS_GERMANET_MAPPING[pos]
    ELSE " "

(* recounts[pos, lemma] += int(count), on a Counter *)
Recounted(recounts, key, count) ==
    [k \in DOMAIN recounts \cup {key} |->
        IF k = key
        THEN (IF key \in DOMAIN recounts THEN recounts[key] ELSE 0) + count
        ELSE recounts[k]]

(* for line in input_file: a line is the sequence of its tab-separated    *)
(* fields count, word, pos, lemma; acc holds recounts and the exception   *)
(* that ended the script, if any                                          *)
RECURSIVE FilterLines(_, _)
FilterLines(acc, lines) ==
    IF lines = <<>> \/ acc.exc # "" THEN acc
    ELSE IF Len(Head(lines)) # 4 THEN FilterLines(acc, Tail(lines))
    ELSE IF MappedPos(Head(lines)[3]) \notin {"n", "v", "j"}
    THEN FilterLines(acc, Tail(lines))
    ELSE IF Rewritten(GnRewrites, Head(lines)[4]) \notin GnWords
    THEN FilterLines(acc, Tail(lines))
    ELSE IF ~IntOK(Head(lines)[1]) THEN [acc EXCEPT !.exc = "ValueError"]
    ELSE FilterLines(
             [acc EXCEPT !.recounts =
                 Recounted(@, <<MappedPos(Head(lines)[3]),
                                Rewritten(GnRewrites, Head(lines)[4])>>,
                           IntValue(Head(lines)[1]))],
             Tail(lines))

filter_wordcounts(lines) ==
    LET acc == FilterLines([recounts |-> <<>>, exc |-> ""], lines)
    IN  /\ last.op = "insert_lexical_information"
        /\ last' = Call("filter_wordcounts", 0, lines, NoneStr, FALSE, 0,
                        IF acc.exc # "" THEN ResRaise(acc.exc)
                        ELSE ResPairs({<<key, acc.recounts[key]>> :
                                         key \in DOMAIN acc.recounts}))
        /\ UNCHANGED <<synsets, lexunits, metainfo, synset_cache,
                       lemma_cache, recency, cold, xml_path, runs>>

(* Lexical units that carry spelling variants *)
WithField(x, field, value) ==
    [f \in DOMAIN x \cup {field} |-> IF f = field THEN value ELSE x[f]]

VariantChoices ==
    {<<>>,
     <<<<1, "orthVar", <<"b">>>>>>,
     <<<<1, "orthVar", <<"a", "a">>>>>>,
     <<<<3, "oldOrthForm", <<"b">>>>>>,
     <<<<1, "orthVar", <<"b">>>>, <<3, "oldOrthForm", <<"b">>>>>>,
     <<<<1, "oldOrthVar", <<"c">>>>, <<3, "orthVar", <<"a">>>>>>}

RECURSIVE WithVariants(_, _)
WithVariants(lexs, choice) ==
    IF choice = <<>> THEN lexs
    ELSE WithVariants(
             [lexs EXCEPT ![Head(choice)[1]] =
                 WithField(@, Head(choice)[2], Head(choice)[3])],
             Tail(choice))

(* Lines of the tagged word count file: count, word, pos, lemma *)
TaggedLines ==
    {<<<<"2">>, <<"w">>, "NN", <<"a">>>>,
     <<<<"1">>, <<"w">>, "NE", <<"a">>>>,
     <<<<"1">>, <<"w">>, "VVFIN", <<"a">>>>,
     <<<<"1">>, <<"w">>, "NN", <<"b">>>>,
     <<<<"1">>, <<"w">>, "APPR", <<"a">>>>,
     <<<<"1">>, <<"w">>, "ZZ", <<"a">>>>,
     <<<<"1">>, <<"w">>, "NN", <<"c">>>>,
     <<<<"1">>, "NN", <<"a">>>>}

TaggedFiles ==
    {<<>>} \cup {<<l>> : l \in TaggedLines}
    \cup {<<l, m>> : l \in TaggedLines, m \in TaggedLines}

InitFilter ==
    /\ synsets = LexicalSynsets
    /\ \E choice \in VariantChoices :
          lexunits = WithVariants(LexicalLexunits, choice)
    /\ metainfo = <<>>
    /\ xml_path = NoDirectory
    /\ runs = 0
    /\ synset_cache = NoCache
    /\ lemma_cache = NoCache
    /\ recency = <<>>
    /\ cold = TRUE
    /\ last = Call("insert_lexical_information", 0, <<>>, NoneStr, FALSE, 0,
                   ResNone)

NextFilter == \E lines \in TaggedFiles : filter_wordcounts(lines)

SpecFilter == InitFilter /\ [][NextFilter]_vars

----------------------------------------------------------------------------
(* Properties of the object caches (specification Spec) *)

Entries(c) == Cardinality(DOMAIN c.data)

WouldHit(mongo_id) == GetSynsetById(Instance, mongo_id).hit

WouldRead(mongo_id) == GetSynsetById(Instance, mongo_id).g.reads = 1

MostRecent(n) == Range(LastN(recency, n))

C3_Step(op, cache, cacheAfter, coll) ==
    last'.op = op =>
        IF last'.key \in DOMAIN cache.data
        THEN /\ last'.hit
             /\ last'.reads = 0
             /\ last'.res = ResObj(last'.key)
        ELSE /\ ~last'.hit
             /\ last'.reads = 1
             /\ IF last'.key \in DOMAIN coll
                THEN /\ last'.res = ResObj(last'.key)
                     /\ last'.key \in DOMAIN cacheAfter.data
                ELSE /\ last'.res = ResNone
                     /\ cacheAfter = cache

----------------------------------------------------------------------------
(* Properties of the lookups (specification SpecLookup) *)

(* C5 as stated: with a part-of-speech code other than n, v and j, lemmas  *)
(* and synsets both return without raising and yield None or an empty      *)
(* list.                                                                   *)
C5_UnknownPosNoResult ==
    last.op \in {"lemmas", "synsets"} /\ last.pos # NoneStr /\ ~PosKnown(last.pos)
        => /\ last.res.kind # "Raise"
           /\ last.res \in {ResNone, ResList(<<>>)}

(* The canonical string is malformed: not three parts, a sense part that   *)
(* is not made of the digits 0-9 only, or an unknown part of speech.       *)
Malformed(synset_repr) ==
    LET parts == Split(synset_repr)
    IN  \/ Len(parts) # 3
        \/ parts[3] = <<>>
        \/ \E i \in DOMAIN parts[3] : parts[3][i] \notin DecimalChars
        \/ parts[2] \notin {<<"n">>, <<"v">>, <<"j">>}

(* C6 as stated: synset() returns None for every malformed string, without *)
(* raising and without a database query.                                   *)
C6_MalformedIsAbsent ==
    last.op = "synset" /\ Malformed(last.str)
        => last.res = ResNone /\ last.reads = 0

LemmaNamedBy(l, synset_repr) ==
    LET parts == Split(synset_repr)
    IN  /\ lexunits[l].orthForm = parts[1]
        /\ <<LONG_POS_TO_SHORT[lexunits[l].category]>> = parts[2]
        /\ lexunits[l].sense = IntValue(parts[3])

----------------------------------------------------------------------------
(* Properties of the hypernym hierarchy (specification SpecHier) *)

(* The synsets a has_hypernym edge of s points to *)
HypernymsOf(s) ==
    {synsets[s].rels[i][2] :
        i \in {j \in DOMAIN synsets[s].rels :
                  synsets[s].rels[j][1] = "has_hypernym"}}

HyponymsOf(s) == {t \in DOMAIN synsets : s \in HypernymsOf(t)}

MinDepthOf(s) == MinDepth(Instance, s).res.id

(* C8 as stated: min_depth(A) > min_depth(B) for every hypernym B of A. *)
C8_MinDepthAboveEveryHypernym ==
    last.op = "min_depth"
        => /\ last.res.kind = "Int"
           /\ \A B \in HypernymsOf(last.key) : last.res.id > MinDepthOf(B)

(* C8 as amended: min_depth of a synset A that has hypernyms is one more   *)
(* than the least min_depth among its hypernyms; min_depth(A) >            *)
(* min_depth(B) holds for a hypernym B of least min_depth, and             *)
(* min_depth(A) <= min_depth(B) + 1 for every hypernym B.                  *)
C8_MinDepthOneAboveLeast ==
    last.op = "min_depth" /\ HypernymsOf(last.key) # {}
        => /\ last.res.kind = "Int"
           /\ \E B \in HypernymsOf(last.key) : last.res.id = MinDepthOf(B) + 1
           /\ \A B \in HypernymsOf(last.key) : last.res.id <= MinDepthOf(B) + 1

C8_Witness ==
    /\ last.op = "min_depth"
    /\ last.res.kind = "Int"
    /\ \E B, C \in HypernymsOf(last.key) :
          /\ MinDepthOf(B) + 1 = last.res.id
          /\ MinDepthOf(C) >= last.res.id

(* C9: of a synset with no has_hypernym edge, hypernym_paths is the one    *)
(* path that holds only the synset, min_depth and max_depth are 1, and     *)
(* root_hypernyms is the list of that synset alone.                        *)
C9_RootSynset ==
    /\ last.op = "hypernym_paths" /\ HypernymsOf(last.key) = {}
           => last.res = ResPaths(<<<<last.key>>>>)
    /\ last.op \in {"min_depth", "max_depth"} /\ HypernymsOf(last.key) = {}
           => last.res = ResInt(1)
    /\ last.op = "root_hypernyms" /\ HypernymsOf(last.key) = {}
           => last.res = ResList(<<last.key>>)

C9_Witness ==
    /\ last.op = "root_hypernyms"
    /\ HypernymsOf(last.key) = {}
    /\ HyponymsOf(last.key) # {}
    /\ last.res = ResList(<<last.key>>)

(* The sequences that end at s and in which each element is a             *)
(* has_hypernym target of its successor: those of `grown`, and the ones    *)
(* got by putting a hypernym of the head in front, again and again.  No    *)
(* such sequence of an acyclic graph is longer than the number of synsets. *)
RECURSIVE PathsUpFrom(_, _)
PathsUpFrom(grown, found) ==
    IF grown = {} THEN found
    ELSE PathsUpFrom(
             UNION {{<<h>> \o p : h \in HypernymsOf(p[1])} :
                       p \in {q \in grown : Len(q) < NumSynsets}},
             found \cup grown)

RootPaths(s) ==
    {p \in PathsUpFrom({<<s>>}, {}) : HypernymsOf(p[1]) = {}}

(* C10: hypernym_paths(s) returns every sequence that starts at a synset   *)
(* with no hypernyms, ends at s and steps from has_hypernym target to      *)
(* source, returns each of them once, and returns nothing else.            *)
C10_AllRootPathsOnce ==
    last.op = "hypernym_paths"
        => /\ last.res.kind = "Paths"
           /\ Range(last.res.paths) = RootPaths(last.key)
           /\ NoDup(last.res.paths)

C10_Witness ==
    /\ last.op = "hypernym_paths"
    /\ last.res.kind = "Paths"
    /\ Len(last.res.paths) > 2
    /\ \E i, j \in DOMAIN last.res.paths :
          Len(last.res.paths[i]) # Len(last.res.paths[j])

(* The has_hypernym steps from s up to the element at place i of path p *)
StepsUp(p, i) == Len(p) - i

OnRootPath(s) == UNION {Range(p) : p \in RootPaths(s)}

LeastStepsUp(s, x) ==
    CHOOSE d \in 0..NumSynsets :
        /\ \E p \in RootPaths(s) : \E i \in DOMAIN p :
              p[i] = x /\ StepsUp(p, i) = d
        /\ \A p \in RootPaths(s) : \A i \in DOMAIN p :
              p[i] = x => d <= StepsUp(p, i)

(* C11: hypernym_distances(s) holds exactly one pair (x, d) for every      *)
(* synset x on a hypernym path of s, s itself with d = 0, and d is the     *)
(* least number of has_hypernym steps from s up to x over the paths on     *)
(* which x appears; it holds no other pair.                                *)
C11_LeastDistances ==
    last.op = "hypernym_distances"
        => /\ last.res.kind = "Pairs"
           /\ last.res.pairs =
                  {<<x, LeastStepsUp(last.key, x)>> : x \in OnRootPath(last.key)}
           /\ <<last.key, 0>> \in last.res.pairs

C11_Witness ==
    /\ last.op = "hypernym_distances"
    /\ \E x \in OnRootPath(last.key) :
          /\ <<x, 1>> \in last.res.pairs
          /\ \E p \in RootPaths(last.key) : \E i \in DOMAIN p :
                p[i] = x /\ StepsUp(p, i) > 1

----------------------------------------------------------------------------
(* Properties of the information content pass (specification SpecInfo) *)

RECURSIVE SumRats(_, _)
SumRats(f, S) ==
    IF S = {} THEN <<0, 1>>
    ELSE LET x == CHOOSE y \in S : TRUE
         IN  RatAdd(f[x], SumRats(f, S \ {x}))

(* The synsets a line of three fields names *)
Matching(line) ==
    {lexunits[l].synset :
        l \in {k \in DOMAIN lexunits :
                  /\ lexunits[k].orthForm = line[3]
                  /\ \E pos \in DOMAIN SHORT_POS_TO_LONG :
                        /\ line[2] = <<pos>>
                        /\ lexunits[k].category = SHORT_POS_TO_LONG[pos]}}

Counting(lines) ==
    {i \in DOMAIN lines : Len(lines[i]) = 3 /\ Matching(lines[i]) # {}}

(* The part of line i's count that reaches synset s *)
ShareReaching(lines, i, s) ==
    SumRats([t \in Matching(lines[i]) |->
                RatMul(Rat(IntValue(lines[i][1]),
                           Cardinality(Matching(lines[i]))),
                       Rat(Cardinality({p \in RootPaths(t) : s \in Range(p)}),
                           Cardinality(RootPaths(t))))],
            Matching(lines[i]))

ExpectedTotal(lines) ==
    RatAdd(RatOne,
           SumRats([i \in Counting(lines) |-> <<IntValue(lines[i][1]), 1>>],
                   Counting(lines)))

ExpectedCount(lines, s) ==
    RatAdd(RatOne,
           SumRats([i \in Counting(lines) |-> ShareReaching(lines, i, s)],
                   Counting(lines)))

InfocontentAsExpected(lines) ==
    /\ last.res.float = FloatRat(ExpectedTotal(lines))
    /\ last.res.pairs =
          {<<s, ExpectedCount(lines, s)>> : s \in DOMAIN synsets}
    /\ \A s \in DOMAIN synsets :
          synsets[s].infocont =
              RatDiv(ExpectedCount(lines, s), ExpectedTotal(lines))

----------------------------------------------------------------------------
(* Properties of the similarity measures (specification SpecSim) *)

Measures == {"sim_lch", "sim_res", "dist_jcn", "sim_lin"}

ReturnsZero == last.res.kind = "Float" /\ IsZero(last.res.float)

(* log a / log b is 1.0 *)
ReturnsOne ==
    /\ last.res.kind = "Float"
    /\ last.res.float.form = "logratio"
    /\ last.res.float.a = last.res.float.b
    /\ last.res.float.a # RatOne

(* C12: sim_lch and sim_res return 0 for every pair of synsets whose       *)
(* categories differ, whatever hypernyms the two have in common.            *)
C12_CrossCategoryZero ==
    /\ last.op \in {"sim_lch", "sim_res"}
    /\ IsSynset(last.key[2])
    /\ synsets[last.key[1]].category # synsets[last.key[2]].category
    => ReturnsZero

(* C13: each of sim_lch, sim_res, dist_jcn and sim_lin returns 0 and does  *)
(* not raise when its argument is not a Synset.                             *)
C13_NonSynsetZero ==
    last.op \in Measures /\ ~IsSynset(last.key[2]) => ReturnsZero

(* C14: for synsets A and B of one category sim_lch(A, B) is what          *)
(* sim_lch(B, A) returns, and shortest_path_length(A, B) is what            *)
(* shortest_path_length(B, A) returns, absent when that is absent.          *)
C14_Symmetric ==
    /\ last.op \in {"sim_lch", "shortest_path_length"}
    /\ IsSynset(last.key[2])
    /\ synsets[last.key[1]].category = synsets[last.key[2]].category
    => IF last.op = "sim_lch"
       THEN last.res = SimLch(Instance, last.key[2], last.key[1]).res
       ELSE last.res =
                ShortestPathLength(Instance, last.key[2], last.key[1]).res

(* sim_lch answered with a logarithm for a synset and one of its proper    *)
(* hypernyms: the two distance sets differ.                                 *)
C14_Witness ==
    /\ last.op = "sim_lch"
    /\ last.res.kind = "Float"
    /\ last.res.float.form = "neglog"
    /\ last.key[1] # last.key[2]
    /\ last.key[1] \in OnRootPath(last.key[2])
    /\ synsets[last.key[1]].category = synsets[last.key[2]].category

(* C15: for a synset A whose infocont is not zero, the value 1 included,   *)
(* sim_lin(A, A) returns 1.0 and dist_jcn(A, A) returns 0.0.                *)
C15_SelfSimilarity ==
    /\ last.op \in {"sim_lin", "dist_jcn"}
    /\ last.key[1] = last.key[2]
    /\ Infocont(last.key[1])[1] # 0
    => IF last.op = "sim_lin" THEN ReturnsOne ELSE ReturnsZero

CommonOf(a, b) ==
    IF IsSynset(b) THEN OnRootPath(a) \cap OnRootPath(b) ELSE {}

Summed(a, b, x) == LeastStepsUp(a, x) + LeastStepsUp(b, x)

LeastSummed(a, b) ==
    CHOOSE d \in 0..(2 * NumSynsets) :
        /\ \E x \in CommonOf(a, b) : Summed(a, b, x) = d
        /\ \A x \in CommonOf(a, b) : d <= Summed(a, b, x)

(* C16: shortest_path_length(a, b) is 0 when a equals b, absent when the   *)
(* two have no hypernym in common, and otherwise the least sum of the two   *)
(* distances to a common hypernym; nearest_common_hypernyms(a, b) is the    *)
(* set of the common hypernyms whose summed distance is that least sum.     *)
C16_LeastSummedDistance ==
    /\ last.op = "shortest_path_length" =>
          last.res = IF last.key[1] = last.key[2] THEN ResInt(0)
                     ELSE IF CommonOf(last.key[1], last.key[2]) = {}
                     THEN ResNone
                     ELSE ResInt(LeastSummed(last.key[1], last.key[2]))
    /\ last.op = "nearest_common_hypernyms" =>
          last.res = ResSet({x \in CommonOf(last.key[1], last.key[2]) :
                               Summed(last.key[1], last.key[2], x) =
                                   LeastSummed(last.key[1], last.key[2])})

(* Two synsets with several hypernyms in common, the nearest of which is   *)
(* neither of the two.                                                      *)
C16_Witness ==
    /\ last.op = "nearest_common_hypernyms"
    /\ last.res.kind = "Set"
    /\ last.res.pairs # {}
    /\ last.key[1] \notin last.res.pairs
    /\ last.key[2] \notin last.res.pairs
    /\ last.res.pairs # CommonOf(last.key[1], last.key[2])

----------------------------------------------------------------------------
(* Properties of the relation pass (specification SpecRel) *)

Forward(records, x) ==
    {<<records[i].name, records[i].to>> :
        i \in {j \in DOMAIN records : records[j].from = x}}

Inverse(records, x, dirs) ==
    {<<records[i].inv, records[i].from>> :
        i \in {j \in DOMAIN records :
                  records[j].to = x /\ records[j].dir \in dirs}}

StoredEdges(doc) == Range(doc.rels)

(* C17: after the relation pass a lexical unit stores exactly the edges    *)
(* (name, to) of the lex_rel records leaving it and (inv, from) of the      *)
(* lex_rel records of dir both arriving at it; a synset stores the same     *)
(* for con_rel records, with the inverse for dir both and dir revert; a     *)
(* record of dir one adds nothing to its target; no edge is stored twice.   *)
C17_StoredEdges ==
    last.op = "insert_relation_information" /\ Len(last.str) = 2 =>
        /\ \A l \in DOMAIN lexunits :
              /\ StoredEdges(lexunits[l]) =
                    Forward(last.str[1], l)
                    \cup Inverse(last.str[1], l, {"both"})
              /\ NoDup(lexunits[l].rels)
        /\ \A ss \in DOMAIN synsets :
              /\ StoredEdges(synsets[ss]) =
                    Forward(last.str[2], ss)
                    \cup Inverse(last.str[2], ss, {"both", "revert"})
              /\ NoDup(synsets[ss].rels)

(* A lex_rel of dir both stored at both ends, a lex_rel of dir revert and  *)
(* a con_rel of dir one stored at their source only.                        *)
C17_Witness ==
    /\ last.op = "insert_relation_information"
    /\ Len(last.str) = 2
    /\ Relation(1, 2, <<"has_antonym", "both", "has_antonym">>)
          \in Range(last.str[1])
    /\ Relation(2, 1, <<"has_hypernym", "revert", "has_hyponym">>)
          \in Range(last.str[1])
    /\ StoredEdges(lexunits[1]) = {<<"has_antonym", 2>>}
    /\ StoredEdges(lexunits[2]) = {<<"has_antonym", 1>>, <<"has_hypernym", 1>>}
    /\ Range(last.str[2]) = {Relation(1, 2, <<"has_pertainym", "one", "">>)}
    /\ StoredEdges(synsets[2]) = {}

----------------------------------------------------------------------------
(* Properties of the relation accessors (specification SpecRels) *)

(* C18: rels(name) and rels() hold only resolved objects; an edge whose    *)
(* target has no record in the database adds no entry to the list.          *)
C18_OnlyResolvedTargets ==
    last.op \in {"Synset.rels", "Lemma.rels"} =>
        /\ 0 \notin Range(last.res.ids)
        /\ \A i \in DOMAIN last.res.paths : last.res.paths[i][2] # 0

----------------------------------------------------------------------------
(* Properties of the word count filter (specification SpecFilter) *)

RECURSIVE SumInts(_, _)
SumInts(f, S) ==
    IF S = {} THEN 0
    ELSE LET x == CHOOSE y \in S : TRUE
         IN  f[x] + SumInts(f, S \ {x})

CategoryCodes == {"n", "v", "j"}

(* The category code a tagset label maps to; blank when it maps to none *)
CodeOf(label) ==
    IF label \in SttsNoun THEN "n"
    ELSE IF label \in SttsVerb THEN "v"
    ELSE IF label \in SttsAdjective THEN "j"
    ELSE " "

(* The lexical units that list `form` as a spelling variant *)
Listing(form) ==
    {l \in DOMAIN lexunits :
        \E i \in DOMAIN VariantFields :
            /\ VariantFields[i] \in DOMAIN lexunits[l]
            /\ lexunits[l][VariantFields[i]] = form}

(* The rewrite table sends a variant to the form of the last unit listing *)
(* it, and leaves every other lemma as it is                               *)
Canonical(lemma) ==
    IF Listing(lemma) = {} THEN lemma
    ELSE lexunits[CHOOSE l \in Listing(lemma) :
                     \A k \in Listing(lemma) : k <= l].orthForm

KeyOf(line) == <<CodeOf(line[3]), Canonical(line[4])>>

Kept(lines) ==
    {i \in DOMAIN lines :
        /\ Len(lines[i]) = 4
        /\ CodeOf(lines[i][3]) \in CategoryCodes
        /\ \E l \in DOMAIN lexunits :
              lexunits[l].orthForm = Canonical(lines[i][4])}

ExpectedTable(lines) ==
    {<<key, SumInts([i \in Kept(lines) |-> IntValue(lines[i][1])],
                    {i \in Kept(lines) : KeyOf(lines[i]) = key})>> :
        key \in {KeyOf(lines[i]) : i \in Kept(lines)}}

(* C20: the filter's output table maps each key (category code, canonical *)
(* lemma) to the sum of the counts of the four-field lines whose label     *)
(* maps to n, v or j and whose rewritten lemma is a GermaNet orthographic  *)
(* form; other lines add to no key, and no key appears twice.              *)
C20_FilteredCounts ==
    last.op = "filter_wordcounts" /\ last.res.kind # "Raise" =>
        /\ last.res.pairs = ExpectedTable(last.str)
        /\ \A p \in last.res.pairs : \A q \in last.res.pairs :
              p[1] = q[1] => p = q

(* Two lines were summed under one key, one of them through the rewrite   *)
(* table.                                                                   *)
C20_Witness ==
    /\ last.op = "filter_wordcounts"
    /\ last.res.pairs = {<<<<"n", <<"a">>>>, 3>>}
    /\ \E i \in DOMAIN last.str :
          Len(last.str[i]) = 4 /\ last.str[i][4] = <<"b">>

----------------------------------------------------------------------------
(* Python floats: IEEE 754 binary64, round to nearest, ties to even.       *)
(* A positive float is [m |-> its 53 significand bits, most significant    *)
(* first, e |-> the exponent of its last bit]: its value is m * 2^e.       *)

SignificandBits == 53

(* bits without its leading zeros *)
Strip(bits) ==
    IF \A i \in DOMAIN bits : bits[i] = 0 THEN <<>>
    ELSE SubSeq(bits,
                CHOOSE i \in DOMAIN bits :
                    bits[i] = 1 /\ \A j \in 1..(i - 1) : bits[j] = 0,
                Len(bits))

(* The sequence a function on 1..n stands for, element by element *)
Listed(f) == f \o <<>>

Zeros(n) == Listed([i \in 1..n |-> 0])

RECURSIVE BitsOf(_)
BitsOf(n) == IF n = 0 THEN <<>> ELSE BitsOf(n \div 2) \o <<n % 2>>

(* Whole numbers of any size are added, subtracted and compared as         *)
(* sequences of limbs of 14 bits, most significant first                   *)
LimbBase == 2 ^ 14

RECURSIVE LimbValue(_, _, _)
LimbValue(bits, from, to) ==
    IF to < from THEN 0 ELSE 2 * LimbValue(bits, from, to - 1) + bits[to]

(* bits as n limbs *)
ToLimbs(bits, n) ==
    With(Zeros(n * 14 - Len(bits)) \o bits, LAMBDA padded :
         Listed([j \in 1..n |->
                    LimbValue(padded, (j - 1) * 14 + 1, j * 14)]))

ToBits(limbs) ==
    Strip([i \in 1..(Len(limbs) * 14) |->
              (limbs[((i - 1) \div 14) + 1]
                  \div (2 ^ (13 - ((i - 1) % 14)))) % 2])

(* The carry into limb j of a + b: a limb to its right overflows and       *)
(* every limb in between passes the carry on                               *)
CarryInto(a, b, j) ==
    IF \E k \in (j + 1)..Len(a) :
          /\ a[k] + b[k] >= LimbBase
          /\ \A h \in (j + 1)..(k - 1) : a[h] + b[h] = LimbBase - 1
    THEN 1 ELSE 0

LimbsAdd(a, b) ==
    Listed([j \in 1..(Len(a) + 1) |->
               IF j = 1 THEN CarryInto(a, b, 0)
               ELSE (a[j - 1] + b[j - 1] + CarryInto(a, b, j - 1))
                       % LimbBase])

BorrowFrom(a, b, j) ==
    IF \E k \in (j + 1)..Len(a) :
          /\ a[k] < b[k]
          /\ \A h \in (j + 1)..(k - 1) : a[h] = b[h]
    THEN 1 ELSE 0

(* a - b, for b <= a *)
LimbsSub(a, b) ==
    Listed([j \in 1..Len(a) |->
               (a[j] - b[j] - BorrowFrom(a, b, j) + LimbBase) % LimbBase])

LimbsLeq(a, b) ==
    \/ a = b
    \/ \E j \in DOMAIN a : a[j] < b[j] /\ \A h \in 1..(j - 1) : a[h] = b[h]

(* 2 * a + bit, for a below half the limbs' range *)
LimbsShiftIn(a, bit) ==
    Listed([j \in 1..Len(a) |->
               ((2 * a[j]) % LimbBase)
               + (IF j = Len(a) THEN bit
                  ELSE a[j + 1] \div (LimbBase \div 2))])

BitsAdd(a, b) ==
    With(((IF Len(a) < Len(b) THEN Len(b) ELSE Len(a)) \div 14) + 1,
         LAMBDA n : ToBits(LimbsAdd(ToLimbs(a, n), ToLimbs(b, n))))

(* Long division: the quotient's bits so far and the remainder, after the  *)
(* bits of num up to position to were brought down (eight bits at a time)  *)
RECURSIVE DivFrom(_, _, _, _, _)
DivFrom(num, den, i, to, acc) ==
    IF i > to THEN acc
    ELSE With(LimbsShiftIn(acc.rem, num[i]), LAMBDA r :
         IF LimbsLeq(den, r)
         THEN DivFrom(num, den, i + 1, to,
                      [quot |-> acc.quot \o <<1>>, rem |-> LimbsSub(r, den)])
         ELSE DivFrom(num, den, i + 1, to,
                      [quot |-> acc.quot \o <<0>>, rem |-> r]))

RECURSIVE DivChunks(_, _, _, _)
DivChunks(num, den, i, acc) ==
    IF i > Len(num) \/ acc.quot = <<2>> THEN acc
    ELSE DivChunks(num, den, i + 8,
                   DivFrom(num, den, i,
                           IF i + 7 < Len(num) THEN i + 7 ELSE Len(num),
                           acc))

(* num divided by den: the quotient and whether a remainder is left *)
BitsDivMod(num, den) ==
    With((Len(den) \div 14) + 1, LAMBDA n :
    With(DivChunks(num, ToLimbs(den, n), 1,
                   [quot |-> <<>>, rem |-> Zeros(n)]), LAMBDA d :
         [quot |-> Strip(d.quot), rem |-> \E j \in 1..n : d.rem[j] # 0]))

(* The float nearest to bits * 2^e (+ a positive amount below the last     *)
(* bit when sticky), for bits without leading zeros                        *)
RoundToDouble(bits, e, sticky) ==
    IF Len(bits) <= SignificandBits
    THEN [m |-> bits \o Zeros(SignificandBits - Len(bits)),
          e |-> e - (SignificandBits - Len(bits))]
    ELSE With(SubSeq(bits, 1, SignificandBits), LAMBDA keep :
         IF /\ bits[SignificandBits + 1] = 1
            /\ \/ sticky
               \/ \E i \in (SignificandBits + 2)..Len(bits) : bits[i] = 1
               \/ keep[SignificandBits] = 1
         THEN With(BitsAdd(keep, <<1>>), LAMBDA up :
              [m |-> SubSeq(up, 1, SignificandBits),
               e |-> e + (Len(bits) - SignificandBits)
                       + (Len(up) - SignificandBits)])
         ELSE [m |-> keep, e |-> e + (Len(bits) - SignificandBits)])

(* float(n), for an int n > 0 *)
DoubleOfInt(n) == RoundToDouble(BitsOf(n), 0, FALSE)

(* x + y *)
DoubleAdd(x, y) ==
    IF x.e < y.e
    THEN RoundToDouble(BitsAdd(x.m, y.m \o Zeros(y.e - x.e)), x.e, FALSE)
    ELSE RoundToDouble(BitsAdd(x.m \o Zeros(x.e - y.e), y.m), y.e, FALSE)

(* x / y *)
DoubleDiv(x, y) ==
    With(BitsDivMod(x.m \o Zeros(SignificandBits + 2), y.m), LAMBDA d :
         RoundToDouble(d.quot, x.e - y.e - (SignificandBits + 2),
                       d.rem))

(* x <= y *)
DoubleLeq(x, y) == x.e < y.e \/ (x.e = y.e /\ LimbsLeq(x.m, y.m))

DoubleOne == DoubleOfInt(1)

----------------------------------------------------------------------------
(* The information content pass in Python's floats: the counts and the     *)
(* total that insert_infocontent_data accumulates, rounded at every += and *)
(* every division (counts in the word count file are positive)             *)

(* gn_counts[ss._id] += scount, once for each time ss stands on a path *)
RECURSIVE DoubleAddTimes(_, _, _)
DoubleAddTimes(x, scount, times) ==
    IF times = 0 THEN x
    ELSE DoubleAddTimes(DoubleAdd(x, scount), scount, times - 1)

DoubleAddPaths(gn_counts, paths, scount) ==
    [ss \in DOMAIN gn_counts |->
        DoubleAddTimes(gn_counts[ss], scount, Occurrences(paths, ss))]

RECURSIVE DoubleCountSynsets(_, _, _, _)
DoubleCountSynsets(g, acc, todo, count) ==
    IF todo = <<>> THEN acc
    ELSE With(HypernymPaths(g, Head(todo), 1), LAMBDA r :
         IF r.exc # "" THEN [acc EXCEPT !.exc = r.exc]
         ELSE DoubleCountSynsets(
                  r.g,
                  [acc EXCEPT
                      !.total_count = DoubleAdd(@, count),
                      !.gn_counts =
                          DoubleAddPaths(@, r.paths,
                                         DoubleDiv(count,
                                                   DoubleOfInt(Len(r.paths))))],
                  Tail(todo), count))

RECURSIVE DoubleCountLines(_, _, _)
DoubleCountLines(g, acc, lines) ==
    IF lines = <<>> \/ acc.exc # "" THEN acc
    ELSE IF Len(Head(lines)) # 3 THEN DoubleCountLines(g, acc, Tail(lines))
    ELSE IF ~IntOK(Head(lines)[1]) THEN [acc EXCEPT !.exc = "ValueError"]
    ELSE IF ~Lemmas(Head(lines)[3], Head(lines)[2]).known
    THEN [acc EXCEPT !.exc = "TypeError"]
    ELSE With(SynsetsFound(g, Head(lines)[3], Head(lines)[2]), LAMBDA found :
         IF found = {} THEN DoubleCountLines(g, acc, Tail(lines))
         ELSE DoubleCountLines(
                  g,
                  DoubleCountSynsets(
                      g, acc, Ascending(found),
                      DoubleDiv(DoubleOfInt(IntValue(Head(lines)[1])),
                                DoubleOfInt(Cardinality(found)))),
                  Tail(lines)))

DoubleCounted(lines) ==
    DoubleCountLines(PassInstance,
                     [gn_counts   |-> [ss \in DOMAIN synsets |-> DoubleOne],
                      total_count |-> DoubleOne,
                      exc         |-> ""],
                     lines)

(* synset['infocont'] = gn_counts[synset['_id']] / total_count, as stored *)
StoredInfocont(lines) ==
    With(DoubleCounted(lines), LAMBDA acc :
         [infocont |-> [ss \in DOMAIN synsets |->
                           DoubleDiv(acc.gn_counts[ss], acc.total_count)],
          least    |-> DoubleDiv(DoubleOne, acc.total_count)])

(* C30: after the information content pass has run on an acyclic graph,    *)
(* every stored infocont lies between 1 / total_count and 1, both          *)
(* included, and a synset on no hypernym path of a counted synset has      *)
(* exactly 1 / total_count.                                                *)
C30_InfocontWithinBounds ==
    After("insert_infocontent_data") =>
        With(StoredInfocont(last.str), LAMBDA stored :
             \A ss \in DOMAIN synsets :
                 /\ DoubleLeq(stored.least, stored.infocont[ss])
                 /\ DoubleLeq(stored.infocont[ss], DoubleOne)
                 /\ ExpectedCount(last.str, ss) = RatOne
                        => stored.infocont[ss] = stored.least)

----------------------------------------------------------------------------
(* Properties of the stored relation lists (specification SpecRel) *)

StrictlyAscending(rels) ==
    \A i \in DOMAIN rels, j \in DOMAIN rels :
        i < j =>
            \/ RelNameRank(rels[i][1]) < RelNameRank(rels[j][1])
            \/ rels[i][1] = rels[j][1] /\ rels[i][2] < rels[j][2]

(* The relation files with the records of `records`, in every order and    *)
(* with every repetition tried                                             *)
Rearranged(records, kinds) ==
    {other \in RelationLists(kinds) : Range(other) = Range(records)}

(* C25: after the relation pass every stored rels list is strictly         *)
(* ascending by (relation name, target), hence free of duplicates, and is  *)
(* the list the pass stores for every reordering and every repetition of   *)
(* the file's records.                                                     *)
C25_SortedRels ==
    After("insert_relation_information") =>
        /\ \A l \in DOMAIN lexunits : StrictlyAscending(lexunits[l].rels)
        /\ \A s \in DOMAIN synsets : StrictlyAscending(synsets[s].rels)
        /\ \A other \in Rearranged(last.str[1], LexRelKinds) :
              InsertLexRels(LexicalLexunits, other) = lexunits
        /\ \A other \in Rearranged(last.str[2], ConRelKinds) :
              insert_relation_information(LexicalSynsets, other) = synsets

(* The file listed two records of one lexical unit with the greater edge   *)
(* first and repeated a synset record; the unit's list holds both edges    *)
(* in ascending order and the synset's list holds its edge once.           *)
C25_Witness ==
    /\ After("insert_relation_information")
    /\ Len(last.str[1]) = 2
    /\ last.str[1][1].from = last.str[1][2].from
    /\ RelNameRank(last.str[1][2].name) < RelNameRank(last.str[1][1].name)
    /\ Len(lexunits[last.str[1][1].from].rels) = 2
    /\ Len(last.str[2]) = 2
    /\ last.str[2][1] = last.str[2][2]
    /\ Len(synsets[last.str[2][1].from].rels) = 1

----------------------------------------------------------------------------
(* The hierarchy on whatever has_hypernym edges a relation file lists:     *)
(* the relation pass stores every edge whose two ends exist, and looks     *)
(* for no cycle (specification SpecAnyEdges)                               *)

(* Up to two has_hypernym records between any synsets, themselves included *)
AnyEdges ==
    {picked \in SUBSET (SynsetIds \X SynsetIds) : Cardinality(picked) <= 2}

InitAnyEdges ==
    /\ \E picked \in AnyEdges :
          synsets = insert_relation_information(LexicalSynsets,
                                                RelationFile(picked))
    /\ lexunits = LexicalLexunits
    /\ metainfo = <<>>
    /\ xml_path = NoDirectory
    /\ runs = 0
    /\ Constructed(HierCacheSizeArgs)

NextAnyEdges ==
    \E self \in SynsetIds :
        \/ hypernym_paths(self)
        \/ min_depth(self)
        \/ max_depth(self)

SpecAnyEdges == InitAnyEdges /\ [][NextAnyEdges]_vars

(* C29: on every lexicon the importer can produce whose has_hypernym edges *)
(* all resolve, hypernym_paths returns a non-empty list of non-empty       *)
(* paths, and min_depth and max_depth return a depth, whether or not the   *)
(* edges form a cycle.                                                     *)
C29_HypernymPathsReturn ==
    /\ last.op = "hypernym_paths" =>
          /\ last.res.kind = "Paths"
          /\ last.res.paths # <<>>
          /\ \A i \in DOMAIN last.res.paths : last.res.paths[i] # <<>>
    /\ last.op \in {"min_depth", "max_depth"} =>
          last.res.kind = "Int" /\ last.res.id >= 1

----------------------------------------------------------------------------
(* sim_lch on a lexicon of nouns: a chain of hypernyms above a root, and   *)
(* a second root that any synset of the chain may also have as a hypernym  *)
(* (specification SpecChain)                                               *)

MaxChain == 4

SecondRoot == MaxChain + 2

ChainIds == 1..(MaxChain + 2)

ChainSynsets ==
    [s \in ChainIds |-> [category |-> "nomen", lexunits |-> <<s>>,
                         rels |-> <<>>]]

ChainLexunits ==
    [l \in ChainIds |-> [orthForm |-> OrthFormOf(l), category |-> "nomen",
                         sense |-> l, synset |-> l, rels |-> <<>>]]

ChainEdges == {<<s + 1, s>> : s \in 1..MaxChain}

ShortcutEdges == {<<s, SecondRoot>> : s \in 2..(MaxChain + 1)}

InitChain ==
    /\ \E picked \in SUBSET ShortcutEdges :
          synsets = insert_relation_information(
                        ChainSynsets, RelationFile(ChainEdges \cup picked))
    /\ lexunits = ChainLexunits
    /\ metainfo = <<>>
    /\ xml_path = NoDirectory
    /\ runs = 0
    /\ synset_cache = NoCache
    /\ lemma_cache = NoCache
    /\ recency = <<>>
    /\ cold = TRUE
    /\ last = Call("insert_lemmatisation_data", 0, <<>>, NoneStr, FALSE, 0,
                   ResNone)

NextChain ==
    \/ insert_infocontent_data(<<>>)
    \/ compute_max_min_depth
    \/ GermaNet_init([given |-> FALSE, val |-> 0])
    \/ \E self \in ChainIds, other \in ChainIds :
          \/ shortest_path_length(self, other)
          \/ sim_lch(self, other)

SpecChain == InitChain /\ [][NextChain]_vars

(* C28: for synsets of one category with a common hypernym, on an          *)
(* acyclic graph and after compute_max_min_depth, the shortest path        *)
(* length plus one is at most twice the category's max_min_depths entry,   *)
(* and sim_lch, minus the logarithm of their quotient, is not negative.    *)
C28_LchNotNegative ==
    /\ (last.op = "shortest_path_length" /\ last.res.kind = "Int") =>
          last.res.id + 1
              <= 2 * InstanceMaxMinDepths[synsets[last.key[1]].category]
    /\ (last.op = "sim_lch" /\ last.res.kind = "Float"
           /\ last.res.float.form = "neglog") =>
          last.res.float.a[1] <= last.res.float.a[2]

----------------------------------------------------------------------------
(* The canonical string of a synset, looked up again (specification        *)
(* SpecRepr).  The importer stores whatever text the orthForm element      *)
(* holds, so a form may contain a dot.                                     *)

(* str(n), n >= 0 *)
RECURSIVE StrOfInt(_)
StrOfInt(n) ==
    IF n < 10 THEN <<DigitOf(n)>>
    ELSE StrOfInt(n \div 10) \o <<DigitOf(n % 10)>>

(* Synset.__repr__: the text between "Synset(" and ")" *)
SynsetRepr(self) ==
    lexunits[synsets[self].lexunits[1]].orthForm
    \o <<".">> \o <<LONG_POS_TO_SHORT[synsets[self].category]>>
    \o <<".">> \o StrOfInt(lexunits[synsets[self].lexunits[1]].sense)

DottedForms == {<<"a", ".">>, <<".">>, <<"a", ".", "a">>}

(* The lexicon with the forms of `forms` in place of the units' own *)
WithForms(lexs, forms) ==
    [l \in DOMAIN lexs |->
        IF l \in DOMAIN forms THEN [lexs[l] EXCEPT !.orthForm = forms[l]]
        ELSE lexs[l]]

InitRepr ==
    /\ synsets = LexicalSynsets
    /\ \E changed \in {ls \in SUBSET LexunitIds : Cardinality(ls) <= 1} :
          \E forms \in [changed -> DottedForms] :
              lexunits = WithForms(LexicalLexunits, forms)
    /\ metainfo = <<>>
    /\ xml_path = NoDirectory
    /\ runs = 0
    /\ Constructed(CacheSizeArgs)

NextRepr == \E self \in SynsetIds : synset(SynsetRepr(self))

SpecRepr == InitRepr /\ [][NextRepr]_vars

(* C27: for every synset s, looking up the canonical string built from     *)
(* s's first member lemma returns s, whatever the orthographic form,       *)
(* forms with a dot and forms shared with another synset's lemma included. *)
C27_ReprRoundTrip ==
    last.op = "synset" =>
        \A s \in DOMAIN synsets :
            last.str = SynsetRepr(s) =>
                last.res.kind = "Object" /\ last.res.id = s

----------------------------------------------------------------------------
(* The importer's main: the passes in their order, on the files of the     *)
(* XML directory, run again on the same database (specification            *)
(* SpecImport)                                                             *)

MaxRuns == 2

(* read_lexical_file on the lexical files: the synsets in file order, each *)
(* with its lexical units                                                  *)
LexicalFile ==
    [s \in SynsetIds |->
        [category |-> CategoryOf(s),
         lexunits |->
             [k \in 1..Cardinality({l \in LexunitIds : OwnerOf(l) = s}) |->
                 [id       |-> Ascending({l \in LexunitIds : OwnerOf(l) = s})[k],
                  orthForm |-> OrthFormOf(
                                   Ascending({l \in LexunitIds :
                                                 OwnerOf(l) = s})[k]),
                  sense    |-> Ascending({l \in LexunitIds :
                                             OwnerOf(l) = s})[k]]]]]

NotDropped(collection) == collection

(* collection.drop() *)
Dropped(collection) == <<>>

(* The place in the file of the lexical unit with vendor id l *)
PlaceOf(parsed, l) ==
    CHOOSE sk \in (DOMAIN parsed) \X LexunitIds :
        /\ sk[2] \in DOMAIN parsed[sk[1]].lexunits
        /\ parsed[sk[1]].lexunits[sk[2]].id = l

LexunitOfFirstSynset(parsed, sk, first) ==
    [orthForm |-> parsed[sk[1]].lexunits[sk[2]].orthForm,
     category |-> parsed[sk[1]].category,
     sense    |-> parsed[sk[1]].lexunits[sk[2]].sense,
     synset   |-> first + 1,
     rels     |-> <<>>]

(* lexunit['synset'] = synset_id; lexunit['category'] = synset['category'] *)
LexunitOf(parsed, sk, first) ==
    [orthForm |-> parsed[sk[1]].lexunits[sk[2]].orthForm,
     category |-> parsed[sk[1]].category,
     sense    |-> parsed[sk[1]].lexunits[sk[2]].sense,
     synset   |-> first + sk[1],
     rels     |-> <<>>]

(* The two collections after the synsets of the files were inserted into   *)
(* them.  A new document's identity is its vendor id counted on from the   *)
(* documents the collection holds already.                                 *)
InsertLexical(syns, lexs, parsed) ==
    [synsets |->
        syns \o [s \in DOMAIN parsed |->
                    [category |-> parsed[s].category,
                     lexunits |-> [k \in DOMAIN parsed[s].lexunits |->
                                      Len(lexs) + parsed[s].lexunits[k].id],
                     rels     |-> <<>>]],
     lexunits |->
        lexs \o [l \in LexunitIds |->
                    LexunitOf(parsed, PlaceOf(parsed, l), Len(syns))]]

insert_lexical_information ==
    LET db == InsertLexical(Dropped(synsets), Dropped(lexunits), LexicalFile)
    IN  /\ After("find_germanet_xml_files") \/ After("compute_max_min_depth")
        /\ runs < MaxRuns
        /\ synsets' = db.synsets
        /\ lexunits' = db.lexunits
        /\ runs' = runs + 1
        /\ last' = Call("insert_lexical_information", 0, <<>>, NoneStr, FALSE,
                        0, ResNone)
        /\ UNCHANGED <<metainfo, synset_cache, lemma_cache, recency, cold,
                       xml_path>>

(* insert_relation_information(germanet_db, None): read_relation_file      *)
(* opens its argument first, and open(None, 'rb') raises TypeError         *)
relation_pass_without_file ==
    /\ last.op = "insert_lexical_information"
    /\ ~xml_path.gn_rels_file.found
    /\ last' = Call("insert_relation_information", 0, <<>>, NoneStr, FALSE, 0,
                    ResRaise("TypeError"))
    /\ UNCHANGED <<synsets, lexunits, metainfo, synset_cache, lemma_cache,
                   recency, cold, xml_path, runs>>

(* lexunit['paraphrases'].append(paraphrase), for the unit each paraphrase *)
(* names                                                                   *)
AddParaphrases(lexs, paraphrases) ==
    [l \in DOMAIN lexs |->
        IF \E i \in DOMAIN paraphrases : paraphrases[i].lexUnitId = l
        THEN WithField(lexs[l], "paraphrases",
                       SelectSeq(paraphrases, LAMBDA p : p.lexUnitId = l))
        ELSE lexs[l]]

insert_paraphrase_information ==
    /\ After("insert_relation_information")
    /\ lexunits' = AddParaphrases(lexunits, xml_path.wiktionary)
    /\ last' = Call("insert_paraphrase_information", 0, <<>>, NoneStr, FALSE,
                    0, ResNone)
    /\ UNCHANGED <<synsets, metainfo, synset_cache, lemma_cache, recency,
                   cold, xml_path, runs>>

(* The lemmatiser collection, which the pass drops and fills again, is no  *)
(* part of the model                                                       *)
insert_lemmatisation_data ==
    /\ After("insert_paraphrase_information")
    /\ last' = Call("insert_lemmatisation_data", 0, <<>>, NoneStr, FALSE, 0,
                    ResNone)
    /\ UNCHANGED <<synsets, lexunits, metainfo, synset_cache, lemma_cache,
                   recency, cold, xml_path, runs>>

(* find_germanet_xml_files: gn_rels_file is None when the directory has no *)
(* gn_relations.xml                                                        *)
NoRelationsFile == [found |-> FALSE, lex_rels |-> <<>>, con_rels |-> <<>>]

RelationsFiles ==
    {[found |-> TRUE, lex_rels |-> lex_rels, con_rels |-> con_rels] :
        lex_rels \in {<<>>, <<Relation(1, 2, <<"has_antonym", "both",
                                              "has_antonym">>)>>},
        con_rels \in {RelationFile(picked) :
                        picked \in SUBSET {p \in Backward : p[1] = p[2] + 1}}}

ParaphraseFiles ==
    {<<>>, <<[lexUnitId |-> 1]>>, <<[lexUnitId |-> 1], [lexUnitId |-> 1]>>}

ImportDirectories ==
    {[gn_rels_file |-> gn_rels_file, wiktionary |-> wiktionary] :
        gn_rels_file \in RelationsFiles \cup {NoRelationsFile},
        wiktionary \in ParaphraseFiles}

(* An empty database, and main about to run on a directory *)
InitImport ==
    /\ synsets = <<>>
    /\ lexunits = <<>>
    /\ metainfo = <<>>
    /\ xml_path \in ImportDirectories
    /\ runs = 0
    /\ synset_cache = NoCache
    /\ lemma_cache = NoCache
    /\ recency = <<>>
    /\ cold = TRUE
    /\ last = Call("find_germanet_xml_files", 0, <<>>, NoneStr, FALSE, 0,
                   ResNone)

NextImport ==
    \/ insert_lexical_information
    \/ /\ xml_path.gn_rels_file.found
       /\ relation_pass(xml_path.gn_rels_file.lex_rels,
                        xml_path.gn_rels_file.con_rels)
    \/ relation_pass_without_file
    \/ insert_paraphrase_information
    \/ insert_lemmatisation_data
    \/ \E lines \in SimWordCountFiles : insert_infocontent_data(lines)
    \/ compute_max_min_depth
    \/ GermaNet_init([given |-> FALSE, val |-> 0])

SpecImport == InitImport /\ [][NextImport]_vars

----------------------------------------------------------------------------
(* The import pipeline run once and run again *)

RECURSIVE TotalRels(_)
TotalRels(records) ==
    IF records = <<>> THEN 0
    ELSE Len(Head(records).rels) + TotalRels(Tail(records))

(* The documents and edges one run of main on the directory leaves in an   *)
(* empty database: synsets, lexical units, relation edges, metainfo        *)
CountsOfOneRun(directory) ==
    LET db == InsertLexical(<<>>, <<>>, LexicalFile)
    IN  <<Len(db.synsets),
          Len(db.lexunits),
          TotalRels(insert_relation_information(
                        db.synsets, directory.gn_rels_file.con_rels))
            + TotalRels(InsertLexRels(db.lexunits,
                                      directory.gn_rels_file.lex_rels)),
          1>>

CountsNow ==
    <<Len(synsets), Len(lexunits), TotalRels(synsets) + TotalRels(lexunits),
      Len(metainfo)>>

(* C21: whenever a run of the import pipeline has completed, the first or  *)
(* the second on the same directory and database, the database holds as    *)
(* many synsets, lexical units, relation edges and metainfo documents as   *)
(* one run leaves.                                                         *)
C21_SecondRunSameCounts ==
    After("compute_max_min_depth") => CountsNow = CountsOfOneRun(xml_path)

C21_Witness ==
    /\ After("compute_max_min_depth")
    /\ runs = 2
    /\ TotalRels(synsets) > 0
    /\ TotalRels(lexunits) > 0

(* C22 as stated: on a directory without gn_relations.xml the relation     *)
(* pass and every later pass complete, and every relation set is empty.    *)
C22_RunsWithoutRelationsFile ==
    (~xml_path.gn_rels_file.found /\ last.op = "insert_relation_information")
        => /\ last.res.kind # "Raise"
           /\ TotalRels(synsets) + TotalRels(lexunits) = 0

(* A lexical unit and the synsets that list it *)
OwnersOf(l) == {s \in DOMAIN synsets : l \in Range(synsets[s].lexunits)}

MembershipConsistent ==
    /\ \A l \in DOMAIN lexunits :
          /\ lexunits[l].synset \in DOMAIN synsets
          /\ OwnersOf(l) = {lexunits[l].synset}
          /\ lexunits[l].category = synsets[lexunits[l].synset].category
    /\ \A s \in DOMAIN synsets :
          \A k \in DOMAIN synsets[s].lexunits :
              /\ synsets[s].lexunits[k] \in DOMAIN lexunits
              /\ lexunits[synsets[s].lexunits[k]].synset = s

(* C24: after the lexical pass and after every later pass, each lexical    *)
(* unit's synset names the one synset that lists the unit, each listed     *)
(* identity is a lexical unit pointing back at the listing synset, and a   *)
(* unit has its synset's category.                                         *)
C24_MembershipConsistent ==
    last.op \in {"insert_lexical_information", "insert_relation_information",
                 "insert_paraphrase_information", "insert_lemmatisation_data",
                 "insert_infocontent_data", "compute_max_min_depth"}
        => MembershipConsistent

C24_Witness ==
    /\ last.op = "insert_infocontent_data"
    /\ runs = 2
    /\ Len(synsets[1].lexunits) = 2
    /\ "paraphrases" \in DOMAIN lexunits[1]
    /\ TotalRels(synsets) > 0
    /\ \E s \in DOMAIN synsets : synsets[s].category # synsets[1].category

(* The categories that have a synset *)
CategoriesPresent == {synsets[s].category : s \in DOMAIN synsets}

(* d is the greatest min_depth of the category's synsets *)
IsMaxMinDepth(category, d) ==
    /\ \E s \in DOMAIN synsets :
          synsets[s].category = category /\ MinDepthOf(s) = d
    /\ \A s \in DOMAIN synsets :
          synsets[s].category = category => MinDepthOf(s) <= d

(* C26: after compute_max_min_depth, run once or again, metainfo holds one *)
(* document that maps each category with a synset to the greatest          *)
(* min_depth of its synsets; an instance constructed then has that mapping *)
(* as max_min_depths, and one constructed on a database without a metainfo *)
(* document has the empty mapping and does not raise.                      *)
C26_OneMetainfoDocument ==
    /\ After("compute_max_min_depth") =>
          /\ Len(metainfo) = 1
          /\ DOMAIN metainfo[1].max_min_depths = CategoriesPresent
          /\ \A category \in CategoriesPresent :
                IsMaxMinDepth(category, metainfo[1].max_min_depths[category])
    /\ last.op = "__init__" =>
          /\ last.res.kind # "Raise"
          /\ IF metainfo = <<>> THEN last.res.pairs = {}
             ELSE /\ Len(metainfo) = 1
                  /\ \A category \in CategoriesPresent :
                        \E pair \in last.res.pairs :
                            /\ pair[1] = category
                            /\ IsMaxMinDepth(category, pair[2])
                  /\ {pair[1] : pair \in last.res.pairs} = CategoriesPresent
                  /\ \A p, q \in last.res.pairs : p[1] = q[1] => p = q

C26_Witness ==
    /\ last.op = "__init__"
    /\ runs = 2
    /\ Len(metainfo) = 1
    /\ \E pair \in last.res.pairs : pair[2] > 0
    /\ Cardinality(last.res.pairs) = 2

C26_WitnessNoMetainfo ==
    last.op = "__init__" /\ metainfo = <<>> /\ last.res.pairs = {}

----------------------------------------------------------------------------
(* The readers of the XML files.  An element is its tag, its attributes,   *)
(* its text ("" where etree gives None) and its children; what the reader  *)
(* prints goes to out, in the order it is printed.                         *)

MaxChildren == 2

Element(tag, attribs, text, children) ==
    [tag |-> tag, attribs |-> attribs, text |-> text, children |-> children]

Only(attribs, keys) == [key \in (DOMAIN attribs) \cap keys |-> attribs[key]]

SeqsUpTo(elements, n) == UNION {[1..k -> elements] : k \in 0..n}

(* str(node.text) *)
StrOfText(text) == IF text = "" THEN "None" ELSE text

warn_attribs(node, recognised_attribs, reqd_attribs) ==
    (IF reqd_attribs \ DOMAIN node.attribs # {}
     THEN <<"missing attributes">> ELSE <<>>)
    \o (IF (DOMAIN node.attribs) \ recognised_attribs # {}
        THEN <<"unrecognised properties">> ELSE <<>>)

RELATION_ATTRIBS_REQD == {"dir", "from", "name", "to"}

RELATION_ATTRIBS_OPT == {"inv"}

RELATION_ATTRIBS == RELATION_ATTRIBS_REQD \cup RELATION_ATTRIBS_OPT

LEX_REL_DIRS == {"both", "one"}

CON_REL_DIRS == {"both", "revert", "one"}

(* child_dict['dir'] raises KeyError on an element without the attribute *)
DirMissing(child) == "dir" \notin DOMAIN child.attribs

(* What one lex_rel or con_rel prints once its dir was read *)
RelationDiagnostics(child, dirs, needs_inv) ==
    (IF child.attribs["dir"] \notin dirs
     THEN <<"unrecognised dir">> ELSE <<>>)
    \o (IF child.attribs["dir"] \in needs_inv
           /\ "inv" \notin DOMAIN child.attribs
        THEN <<"dir does not specify inv">> ELSE <<>>)

RECURSIVE ReadRelations(_, _)
ReadRelations(children, acc) ==
    IF children = <<>> THEN acc
    ELSE LET child == Head(children)
             checked ==
                 acc.out
                 \o (IF child.children # <<>>
                     THEN <<"unexpected child node">> ELSE <<>>)
                 \o warn_attribs(child, RELATION_ATTRIBS,
                                 RELATION_ATTRIBS_REQD)
         IN  IF child.tag \notin {"lex_rel", "con_rel"}
             THEN ReadRelations(
                      Tail(children),
                      [acc EXCEPT !.out =
                           Append(@, "unrecognised child of <relations>")])
             ELSE IF DirMissing(child)
             THEN [acc EXCEPT !.out = checked, !.exc = "KeyError"]
             ELSE IF child.tag = "lex_rel"
             THEN ReadRelations(
                      Tail(children),
                      [acc EXCEPT
                          !.out = checked \o RelationDiagnostics(
                                                child, LEX_REL_DIRS, {"both"}),
                          !.lex_rels = Append(@, child.attribs)])
             ELSE ReadRelations(
                      Tail(children),
                      [acc EXCEPT
                          !.out = checked \o RelationDiagnostics(
                                                child, CON_REL_DIRS,
                                                {"both", "revert"}),
                          !.con_rels = Append(@, child.attribs)])

read_relation_file(doc) ==
    IF doc.tag # "relations"
    THEN [lex_rels |-> <<>>, con_rels |-> <<>>, out |-> <<>>,
          exc |-> "AssertionError"]
    ELSE ReadRelations(doc.children,
                       [lex_rels |-> <<>>, con_rels |-> <<>>, out |-> <<>>,
                        exc |-> ""])

SYNSET_ATTRIBS == {"category", "id", "class"}

LEXUNIT_ATTRIBS ==
    {"styleMarking", "namedEntity", "artificial", "source", "sense", "id"}

MODIFIER_ATTRIBS == {"category", "property"}

HEAD_ATTRIBS == {"property"}

(* The loop over the children of <example> other than <text> *)
RECURSIVE ReadExample(_, _)
ReadExample(children, acc) ==
    IF children = <<>> THEN acc
    ELSE LET child == Head(children)
         IN  IF child.tag = "text" THEN ReadExample(Tail(children), acc)
             ELSE IF child.tag = "exframe"
             THEN LET out ==
                          acc.out
                          \o (IF "exframe" \in DOMAIN acc.dict
                              THEN <<"more than one <exframe>">> ELSE <<>>)
                          \o warn_attribs(child, {}, {})
                  IN  IF child.text = ""
                      THEN ReadExample(
                               Tail(children),
                               [acc EXCEPT !.out =
                                    Append(out, "<exframe> with no text")])
                      ELSE ReadExample(
                               Tail(children),
                               [acc EXCEPT
                                   !.out = out,
                                   !.dict = WithField(@, "exframe",
                                                      child.text)])
             ELSE ReadExample(
                      Tail(children),
                      [acc EXCEPT !.out =
                           Append(@, "unrecognised child of <example>")])

(* The loop over the children of <compound>, whose dictionary the reader   *)
(* builds and does not keep                                                *)
RECURSIVE ReadCompound(_, _)
ReadCompound(children, out) ==
    IF children = <<>> THEN out
    ELSE LET child == Head(children)
         IN  IF child.tag = "modifier"
             THEN ReadCompound(
                      Tail(children),
                      out \o warn_attribs(child, MODIFIER_ATTRIBS, {})
                          \o (IF child.text = ""
                              THEN <<"modifier without text">> ELSE <<>>))
             ELSE IF child.tag = "head"
             THEN ReadCompound(
                      Tail(children),
                      out \o warn_attribs(child, HEAD_ATTRIBS, {})
                          \o (IF child.text = ""
                              THEN <<"<head> without text">> ELSE <<>>))
             ELSE ReadCompound(
                      Tail(children),
                      Append(out, "unrecognised child of <compound>"))

TextsOf(example) == SelectSeq(example.children, LAMBDA c : c.tag = "text")

(* text[0] raises IndexError when the <example> has no <text> child *)
NoText(example) == TextsOf(example) = <<>>

(* The loop over the children of <lexUnit>; acc.dict is lexunit_dict *)
RECURSIVE ReadLexUnit(_, _)
ReadLexUnit(children, acc) ==
    IF children = <<>> THEN acc
    ELSE LET child == Head(children)
         IN  IF child.tag \in {"orthForm", "orthVar", "oldOrthForm",
                               "oldOrthVar"}
             THEN LET out == acc.out \o warn_attribs(child, {}, {})
                  IN  IF child.text = ""
                      THEN ReadLexUnit(
                               Tail(children),
                               [acc EXCEPT !.out =
                                    Append(out, "form with no text")])
                      ELSE ReadLexUnit(
                               Tail(children),
                               [acc EXCEPT
                                   !.out =
                                       out \o (IF child.tag \in DOMAIN acc.dict
                                               THEN <<"more than one form">>
                                               ELSE <<>>),
                                   !.dict = WithField(@, child.tag,
                                                      child.text)])
             ELSE IF child.tag = "example"
             THEN LET out ==
                          acc.out
                          \o (IF Len(TextsOf(child)) # 1
                                 \/ TextsOf(child)[1].text = ""
                              THEN <<"<example> tag without text">>
                              ELSE <<>>)
                  IN  IF NoText(child)
                      THEN [acc EXCEPT !.out = out, !.exc = "IndexError"]
                      ELSE LET example ==
                                   ReadExample(
                                       child.children,
                                       [dict |-> [text |-> StrOfText(
                                                     TextsOf(child)[1].text)],
                                        out |-> out])
                           IN  ReadLexUnit(
                                   Tail(children),
                                   [acc EXCEPT
                                       !.out = example.out,
                                       !.dict.examples =
                                           Append(@, example.dict)])
             ELSE IF child.tag = "frame"
             THEN LET out ==
                          acc.out \o warn_attribs(child, {}, {})
                          \o (IF child.children # <<>>
                              THEN <<"unrecognised <frame> children">>
                              ELSE <<>>)
                  IN  IF child.text = ""
                      THEN ReadLexUnit(
                               Tail(children),
                               [acc EXCEPT !.out =
                                    Append(out, "<frame> without text")])
                      ELSE ReadLexUnit(
                               Tail(children),
                               [acc EXCEPT
                                   !.out = out,
                                   !.dict.frames = Append(@, child.text)])
             ELSE IF child.tag = "compound"
             THEN ReadLexUnit(
                      Tail(children),
                      [acc EXCEPT !.out =
                           ReadCompound(child.children,
                                        @ \o warn_attribs(child, {}, {}))])
             ELSE ReadLexUnit(
                      Tail(children),
                      [acc EXCEPT !.out =
                           Append(@, "unrecognised child of <lexUnit>")])

MAP_YESNO_TO_BOOL == [yes |-> TRUE, no |-> FALSE]

BooleanKeys == <<"styleMarking", "artificial", "namedEntity">>

(* for key in ['styleMarking', 'artificial', 'namedEntity'] *)
RECURSIVE ConvertBooleans(_, _)
ConvertBooleans(keys, acc) ==
    IF keys = <<>> THEN acc
    ELSE IF Head(keys) \notin DOMAIN acc.dict
    THEN ConvertBooleans(Tail(keys), acc)
    ELSE IF acc.dict[Head(keys)] \notin DOMAIN MAP_YESNO_TO_BOOL
    THEN ConvertBooleans(
             Tail(keys),
             [acc EXCEPT !.out = Append(@, "non-boolean value")])
    ELSE ConvertBooleans(
             Tail(keys),
             [acc EXCEPT !.dict[Head(keys)] = MAP_YESNO_TO_BOOL[@]])

(* One <lexUnit>: its attributes converted, then its children read *)
ReadLexUnitElement(lexunit, out) ==
    LET converted ==
            ConvertBooleans(
                BooleanKeys,
                [dict |-> lexunit.attribs,
                 out |-> out \o warn_attribs(lexunit, LEXUNIT_ATTRIBS,
                                             LEXUNIT_ATTRIBS),
                 exc |-> ""])
        sensed ==
            IF "sense" \notin DOMAIN converted.dict THEN converted
            ELSE IF ~IsDigit(converted.dict["sense"])
            THEN [converted EXCEPT !.out = Append(@, "non-numeric sense")]
            ELSE IF ~IntOK(converted.dict["sense"])
            THEN [converted EXCEPT !.exc = "ValueError"]
            ELSE [converted EXCEPT !.dict["sense"] = IntValue(@)]
    IN  IF sensed.exc # "" THEN sensed
        ELSE ReadLexUnit(
                 lexunit.children,
                 [sensed EXCEPT
                     !.dict = WithField(WithField(@, "examples", <<>>),
                                        "frames", <<>>)])

(* The loop over the children of <synset>; acc.lexunits is                 *)
(* synset_dict['lexunits']                                                 *)
RECURSIVE ReadSynset(_, _)
ReadSynset(children, acc) ==
    IF children = <<>> THEN acc
    ELSE LET child == Head(children)
         IN  IF child.tag = "lexUnit"
             THEN LET lexunit == ReadLexUnitElement(child, acc.out)
                  IN  IF lexunit.exc # ""
                      THEN [acc EXCEPT !.out = lexunit.out,
                                       !.exc = lexunit.exc]
                      ELSE ReadSynset(
                               Tail(children),
                               [acc EXCEPT
                                   !.out = lexunit.out,
                                   !.lexunits = Append(@, lexunit.dict)])
             ELSE IF child.tag = "paraphrase"
             THEN ReadSynset(
                      Tail(children),
                      [acc EXCEPT !.out = @ \o warn_attribs(child, {}, {})])
             ELSE ReadSynset(
                      Tail(children),
                      [acc EXCEPT !.out =
                           Append(@, "unrecognised child of <synset>")])

(* The loop over the children of the root *)
RECURSIVE ReadSynsets(_, _)
ReadSynsets(children, acc) ==
    IF children = <<>> THEN acc
    ELSE LET element == Head(children)
         IN  IF element.tag # "synset"
             THEN ReadSynsets(
                      Tail(children),
                      [acc EXCEPT !.out =
                           Append(@, "unrecognised child of <synsets>")])
             ELSE LET read ==
                          ReadSynset(
                              element.children,
                              [lexunits |-> <<>>,
                               out |-> acc.out
                                       \o warn_attribs(element, SYNSET_ATTRIBS,
                                                       SYNSET_ATTRIBS),
                               exc |-> ""])
                  IN  IF read.exc # ""
                      THEN [acc EXCEPT !.out = read.out, !.exc = read.exc]
                      ELSE ReadSynsets(
                               Tail(children),
                               [acc EXCEPT
                                   !.out = read.out,
                                   !.synsets =
                                       Append(@, WithField(element.attribs,
                                                           "lexunits",
                                                           read.lexunits))])

read_lexical_file(doc) ==
    IF doc.tag # "synsets"
    THEN [synsets |-> <<>>, out |-> <<>>, exc |-> "AssertionError"]
    ELSE ReadSynsets(doc.children,
                     [synsets |-> <<>>, out |-> <<>>, exc |-> ""])

(* What a call of a reader left: the value returned, or the exception, and *)
(* what was printed.  A reader keeps nothing between calls, so each call   *)
(* is taken from the state before the first one.                           *)
ResRead(value, out, exc) ==
    [kind |-> IF exc = "" THEN "List" ELSE "Raise", id |-> 0,
     ids |-> IF exc = "" THEN value ELSE <<>>, paths |-> <<>>, exc |-> exc,
     pairs |-> {}, float |-> NoFloat, out |-> out]

call_read_relation_file(doc) ==
    /\ last.op = "find_germanet_xml_files"
    /\ last' = Call("read_relation_file", 0, doc, NoneStr, FALSE, 0,
                    With(read_relation_file(doc),
                         LAMBDA read : ResRead(<<read.lex_rels, read.con_rels>>,
                                               read.out, read.exc)))
    /\ UNCHANGED <<synsets, lexunits, metainfo, synset_cache, lemma_cache,
                   recency, cold, xml_path, runs>>

call_read_lexical_file(doc) ==
    /\ last.op = "find_germanet_xml_files"
    /\ last' = Call("read_lexical_file", 0, doc, NoneStr, FALSE, 0,
                    With(read_lexical_file(doc),
                         LAMBDA read : ResRead(read.synsets, read.out,
                                               read.exc)))
    /\ UNCHANGED <<synsets, lexunits, metainfo, synset_cache, lemma_cache,
                   recency, cold, xml_path, runs>>

(* The relation records tried: complete ones, and ones that lack one       *)
(* required attribute, have an unknown dir or have a child                 *)
CompleteRelation == [dir |-> "one", from |-> 1, name |-> "has_hypernym",
                     to |-> 2]

RelationElements ==
    {Element(tag, Only(CompleteRelation, RELATION_ATTRIBS_REQD \ missing),
             "", <<>>) :
        tag \in {"lex_rel", "con_rel"},
        missing \in {{}, {"dir"}, {"from"}, {"name"}, {"to"}}}
    \cup {Element("con_rel", [CompleteRelation EXCEPT !.dir = "revert"], "",
                  <<>>),
          Element("lex_rel", [CompleteRelation EXCEPT !.dir = "revert"], "",
                  <<>>),
          Element("con_rel", CompleteRelation, "",
                  <<Element("note", <<>>, "", <<>>)>>),
          Element("comment", <<>>, "", <<>>)}

RelationDocs ==
    {Element(root, <<>>, "", children) :
        root \in {"relations", "synsets"},
        children \in SeqsUpTo(RelationElements, MaxChildren)}

(* The children of a <lexUnit> tried *)
TextElement(text) == Element("text", <<>>, text, <<>>)

LexUnitChildren ==
    {Element("orthForm", <<>>, "Haus", <<>>),
     Element("orthVar", <<>>, "", <<>>),
     Element("example", <<>>, "", <<>>),
     Element("example", <<>>, "", <<TextElement("ein Haus")>>),
     Element("example", <<>>, "", <<TextElement("")>>),
     Element("example", <<>>, "",
             <<TextElement("ein Haus"), TextElement("das Haus")>>),
     Element("example", <<>>, "",
             <<Element("exframe", <<>>, "NN", <<>>)>>),
     Element("example", <<>>, "",
             <<TextElement("ein Haus"), Element("exframe", <<>>, "NN", <<>>)>>),
     Element("frame", <<>>, "NN", <<>>),
     Element("compound", <<>>, "",
             <<Element("head", <<>>, "Haus", <<>>)>>),
     Element("note", <<>>, "", <<>>)}

LexUnitAttribs ==
    {[id |-> "l1", sense |-> <<"1">>, source |-> "core",
      namedEntity |-> "no", artificial |-> "no", styleMarking |-> "no"],
     [id |-> "l1", sense |-> <<"a">>, source |-> "core",
      namedEntity |-> "yes", artificial |-> "maybe", styleMarking |-> "no"],
     [id |-> "l1", sense |-> <<"^2">>, source |-> "core",
      namedEntity |-> "no", artificial |-> "no", styleMarking |-> "no"],
     [id |-> "l1", source |-> "core"]}

LexicalDocs ==
    {Element(root, <<>>, "",
             <<Element("synset",
                       [id |-> "s1", category |-> "nomen", class |-> "Ort"],
                       "",
                       <<Element("lexUnit", attribs, "", children)>>
                       \o tail)>>) :
        root \in {"synsets", "relations"},
        attribs \in LexUnitAttribs,
        children \in SeqsUpTo(LexUnitChildren, MaxChildren),
        tail \in {<<>>, <<Element("paraphrase", <<>>, "Gebaeude", <<>>)>>}}

InitRead ==
    /\ synsets = <<>>
    /\ lexunits = <<>>
    /\ metainfo = <<>>
    /\ xml_path = NoDirectory
    /\ runs = 0
    /\ synset_cache = NoCache
    /\ lemma_cache = NoCache
    /\ recency = <<>>
    /\ cold = TRUE
    /\ last = Call("find_germanet_xml_files", 0, <<>>, NoneStr, FALSE, 0,
                   ResNone)

NextRead ==
    \/ \E doc \in RelationDocs : call_read_relation_file(doc)
    \/ \E doc \in LexicalDocs : call_read_lexical_file(doc)

SpecRead == InitRead /\ [][NextRead]_vars

(* The relation records and the examples of a document *)
RelationRecords(doc) ==
    SelectSeq(doc.children, LAMBDA c : c.tag \in {"lex_rel", "con_rel"})

DefectiveRelation(child) ==
    RELATION_ATTRIBS_REQD \ DOMAIN child.attribs # {}

RECURSIVE ChildrenOfAll(_)
ChildrenOfAll(elements) ==
    IF elements = <<>> THEN <<>>
    ELSE Head(elements).children \o ChildrenOfAll(Tail(elements))

ExamplesOf(doc) ==
    SelectSeq(ChildrenOfAll(ChildrenOfAll(doc.children)),
              LAMBDA c : c.tag = "example")

(* C23 as stated: a reader raises only on a wrong root element; a relation *)
(* record lacking dir, from, name or to, and an <example> without a <text> *)
(* child, are diagnosed, and the reader returns with every relation record *)
(* of the file recorded, the defective ones included.                      *)
C23_ProblemsNeverAbort ==
    /\ last.op = "read_relation_file" =>
          IF last.str.tag # "relations" THEN last.res.kind = "Raise"
          ELSE /\ last.res.kind # "Raise"
               /\ Len(last.res.ids[1]) + Len(last.res.ids[2])
                     = Len(RelationRecords(last.str))
               /\ (\E i \in DOMAIN RelationRecords(last.str) :
                      DefectiveRelation(RelationRecords(last.str)[i]))
                     => "missing attributes" \in Range(last.res.out)
    /\ last.op = "read_lexical_file" =>
          IF last.str.tag # "synsets" THEN last.res.kind = "Raise"
          ELSE /\ last.res.kind # "Raise"
               /\ (\E i \in DOMAIN ExamplesOf(last.str) :
                      TextsOf(ExamplesOf(last.str)[i]) = <<>>)
                     => "<example> tag without text" \in Range(last.res.out)

(* What does hold of the relation reader: a record lacking from, name or   *)
(* to is diagnosed and recorded, and the reader goes on and returns; it is *)
(* a record lacking dir that ends the reader with KeyError.                *)
RelationReaderAbortsOnlyWithoutDir ==
    (last.op = "read_relation_file" /\ last.str.tag = "relations") =>
        /\ last.res.kind = "Raise"
              <=> \E i \in DOMAIN RelationRecords(last.str) :
                     "dir" \notin DOMAIN RelationRecords(last.str)[i].attribs
        /\ last.res.kind # "Raise" =>
              Len(last.res.ids[1]) + Len(last.res.ids[2])
                 = Len(RelationRecords(last.str))
        /\ (\E i \in DOMAIN RelationRecords(last.str) :
               DefectiveRelation(RelationRecords(last.str)[i]))
              => "missing attributes" \in Range(last.res.out)

====
